---- MODULE Spec2Model ----
(***************************************************************************)
(* Freepik MCP server (src/src/index.ts, the full revision, and            *)
(* src/unnamed/part_000, the reduced revision): the tool catalog, the      *)
(* CallTool dispatcher with its try/catch, the handlers' argument          *)
(* resolution and request construction, the upstream round trip and the    *)
(* mapping of the response to the reply text.                              *)
(*                                                                         *)
(* JavaScript values are tagged records, strings are TLA+ strings, and     *)
(* every conversion the handlers apply (template interpolation, toString,  *)
(* Math.min, URLSearchParams, encodeURIComponent) is computed character by *)
(* character or digit by digit.                                            *)
(***************************************************************************)
EXTENDS Integers, Sequences, FiniteSets, TLC

(***************************************************************************)
(* JavaScript values                                                       *)
(***************************************************************************)
Undef == [t |-> "undefined", s |-> "", n |-> 0, b |-> FALSE]
Null == [t |-> "null", s |-> "", n |-> 0, b |-> FALSE]
NaN == [t |-> "nan", s |-> "", n |-> 0, b |-> FALSE]
Str(x) == [t |-> "string", s |-> x, n |-> 0, b |-> FALSE]
Num(k) == [t |-> "number", s |-> "", n |-> k, b |-> FALSE]
Bool(x) == [t |-> "boolean", s |-> "", n |-> 0, b |-> x]
Obj(label) == [t |-> "object", s |-> label, n |-> 0, b |-> FALSE]

\* if (v !== undefined) in place of if (v)
TruthyIfDefined(v) == v.t # "undefined"

\* if (v): JavaScript truthiness
Truthy(v) ==
  CASE v.t = "string" -> v.s # ""
    [] v.t = "number" -> v.n # 0
    [] v.t = "boolean" -> v.b
    [] v.t = "object" -> TRUE
    [] OTHER -> FALSE

Digit(d) ==
  CASE d = 0 -> "0" [] d = 1 -> "1" [] d = 2 -> "2" [] d = 3 -> "3" [] d = 4 -> "4"
    [] d = 5 -> "5" [] d = 6 -> "6" [] d = 7 -> "7" [] d = 8 -> "8" [] d = 9 -> "9"

RECURSIVE NatToString(_)
NatToString(k) ==
  IF k < 10 THEN Digit(k) ELSE NatToString(k \div 10) \o Digit(k % 10)

\* Number.prototype.toString for an integer
NumToString(k) == IF k < 0 THEN "-" \o NatToString(0 - k) ELSE NatToString(k)

Digits == {"0", "1", "2", "3", "4", "5", "6", "7", "8", "9"}

DigitValue(c) ==
  CASE c = "0" -> 0 [] c = "1" -> 1 [] c = "2" -> 2 [] c = "3" -> 3 [] c = "4" -> 4
    [] c = "5" -> 5 [] c = "6" -> 6 [] c = "7" -> 7 [] c = "8" -> 8 [] c = "9" -> 9

RECURSIVE AllDigits(_)
AllDigits(s) == s = "" \/ (Head(s) \in Digits /\ AllDigits(Tail(s)))

RECURSIVE ParseNat(_, _)
ParseNat(s, acc) ==
  IF s = "" THEN acc ELSE ParseNat(Tail(s), acc * 10 + DigitValue(Head(s)))

\* ToNumber, the coercion Math.min applies to its arguments
ToNumber(v) ==
  CASE v.t = "number" -> v
    [] v.t = "null" -> Num(0)
    [] v.t = "boolean" -> Num(IF v.b THEN 1 ELSE 0)
    [] v.t = "string" ->
         IF AllDigits(v.s) THEN Num(ParseNat(v.s, 0))
         ELSE IF Len(v.s) > 1 /\ Head(v.s) = "-" /\ AllDigits(Tail(v.s))
              THEN Num(0 - ParseNat(Tail(v.s), 0))
              ELSE NaN
    [] OTHER -> NaN

\* the first argument, not the smaller one
MathMinUnclamped(a, b) == ToNumber(a)

\* Math.min(a, b)
MathMin(a, b) ==
  LET x == ToNumber(a)
      y == ToNumber(b)
  IN IF x.t = "nan" \/ y.t = "nan" THEN NaN
     ELSE IF x.n <= y.n THEN x ELSE y

\* String(v), as template literals and URLSearchParams.append apply it
ToJSString(v) ==
  CASE v.t = "string" -> v.s
    [] v.t = "number" -> NumToString(v.n)
    [] v.t = "boolean" -> (IF v.b THEN "true" ELSE "false")
    [] v.t = "undefined" -> "undefined"
    [] v.t = "null" -> "null"
    [] v.t = "nan" -> "NaN"
    [] v.t = "object" -> "[object Object]"

\* the outcome of an expression: a value, or a thrown Error with its message
Ok(x) == [threw |-> FALSE, message |-> "", value |-> x]
Threw(msg) == [threw |-> TRUE, message |-> msg, value |-> ""]

\* v.toString(): a TypeError on undefined and null
ToStringMethod(v) ==
  IF v.t \in {"undefined", "null"}
  THEN Threw("Cannot read properties of " \o v.t \o " (reading 'toString')")
  ELSE Ok(ToJSString(v))

(***************************************************************************)
(* Percent-encoding                                                        *)
(***************************************************************************)
Alnum ==
  {"a", "b", "c", "d", "e", "f", "g", "h", "i", "j", "k", "l", "m", "n", "o", "p",
   "q", "r", "s", "t", "u", "v", "w", "x", "y", "z",
   "A", "B", "C", "D", "E", "F", "G", "H", "I", "J", "K", "L", "M", "N", "O", "P",
   "Q", "R", "S", "T", "U", "V", "W", "X", "Y", "Z"} \cup Digits

PercentCode(c) ==
  CASE c = " " -> "%20" [] c = "#" -> "%23" [] c = "%" -> "%25" [] c = "&" -> "%26"
    [] c = "+" -> "%2B" [] c = "," -> "%2C" [] c = "/" -> "%2F" [] c = ":" -> "%3A"
    [] c = "=" -> "%3D" [] c = "?" -> "%3F" [] c = "@" -> "%40"
    [] c = "!" -> "%21" [] c = "'" -> "%27" [] c = "(" -> "%28" [] c = ")" -> "%29"
    [] c = "~" -> "%7E"

\* encodeURIComponent leaves A-Z a-z 0-9 - _ . ! ~ * ' ( ) alone
UriChar(c) ==
  IF c \in Alnum \cup {"-", "_", ".", "!", "~", "*", "'", "(", ")"} THEN c
  ELSE PercentCode(c)

RECURSIVE UriEncode(_)
UriEncode(s) == IF s = "" THEN "" ELSE UriChar(Head(s)) \o UriEncode(Tail(s))

encodeURIComponent(v) == UriEncode(ToJSString(v))

\* application/x-www-form-urlencoded, as URLSearchParams.toString serialises:
\* A-Z a-z 0-9 * - . _ stay, a space becomes +
FormChar(c) ==
  IF c \in Alnum \cup {"*", "-", ".", "_"} THEN c
  ELSE IF c = " " THEN "+" ELSE PercentCode(c)

RECURSIVE FormEncode(_)
FormEncode(s) == IF s = "" THEN "" ELSE FormChar(Head(s)) \o FormEncode(Tail(s))

RECURSIVE ParamsToString(_)
ParamsToString(ps) ==
  IF ps = <<>> THEN ""
  ELSE FormEncode(ps[1][1]) \o "=" \o FormEncode(ps[1][2])
       \o (IF Len(ps) > 1 THEN "&" ELSE "") \o ParamsToString(Tail(ps))

(***************************************************************************)
(* The two revisions and the tool catalog                                  *)
(***************************************************************************)
Revisions == {"full", "reduced"}

\* private baseUrl
baseUrl == "https://api.freepik.com/v1"

\* the descriptors of the ListTools handler, in order: name, the names of
\* inputSchema.properties, inputSchema.required
Tool(name, properties, required) ==
  [name |-> name, properties |-> properties, required |-> required]

CatalogFull ==
  << Tool("search_resources",
          {"query", "page", "limit", "orientation", "order", "license",
           "people_number", "people_ethnicity", "ai_generated", "content_type",
           "color", "people_age", "people_gender"}, {}),
     Tool("search_icons",
          {"term", "slug", "page", "per_page", "family_id", "order", "color",
           "shape", "free_svg"}, {}),
     Tool("download_icon", {"icon_id", "format", "png_size"}, {"icon_id"}),
     Tool("download_resource", {"resource_id", "image_size"}, {"resource_id"}),
     Tool("download_resource_format", {"resource_id", "format"},
          {"resource_id", "format"}),
     Tool("generate_icon",
          {"prompt", "webhook_url", "format", "style", "num_inference_steps",
           "guidance_scale"}, {"prompt", "webhook_url"}),
     Tool("generate_icon_preview",
          {"prompt", "webhook_url", "style", "num_inference_steps",
           "guidance_scale"}, {"prompt", "webhook_url"}),
     Tool("render_generated_icon", {"task_id", "format"}, {"task_id", "format"}),
     Tool("generate_mystic",
          {"prompt", "webhook_url", "structure_reference", "style_reference",
           "resolution", "aspect_ratio", "model"}, {"prompt"}),
     Tool("get_mystic_task", {"task_id"}, {"task_id"}),
     Tool("list_mystic_tasks", {}, {}),
     Tool("generate_flux_dev",
          {"prompt", "webhook_url", "aspect_ratio", "styling", "seed"}, {"prompt"}),
     Tool("get_flux_dev_task", {"task_id"}, {"task_id"}),
     Tool("list_flux_dev_tasks", {}, {}),
     Tool("reimagine_flux",
          {"image", "prompt", "webhook_url", "imagination", "aspect_ratio"},
          {"image"}),
     Tool("upscale_image",
          {"image", "webhook_url", "scale_factor", "optimized_for", "prompt",
           "creativity", "hdr", "resemblance", "fractality", "engine"}, {"image"}),
     Tool("get_upscaler_task", {"task_id"}, {"task_id"}),
     Tool("list_upscaler_tasks", {}, {}),
     Tool("remove_background", {"image_url"}, {"image_url"}),
     Tool("expand_image",
          {"image", "prompt", "left", "right", "top", "bottom", "webhook_url"},
          {"image"}),
     Tool("get_expand_task", {"task_id"}, {"task_id"}),
     Tool("list_expand_tasks", {}, {}),
     Tool("get_resource_details", {"resource_id"}, {"resource_id"}) >>

CatalogReduced ==
  << Tool("search_resources",
          {"query", "page", "limit", "orientation", "content_type", "color",
           "people_age", "people_gender"}, {}),
     Tool("get_resource_details", {"resource_id"}, {"resource_id"}) >>

\* ListTools
listTools(rev) == IF rev = "full" THEN CatalogFull ELSE CatalogReduced

ToolNamesOf(rev) == {listTools(rev)[i].name : i \in DOMAIN listTools(rev)}

Descriptor(rev, name) ==
  LET cat == listTools(rev)
  IN cat[CHOOSE i \in DOMAIN cat : cat[i].name = name]

\* the numeric properties whose schema declares a minimum and a maximum
Ranges ==
  [generate_icon |-> [num_inference_steps |-> <<10, 50>>, guidance_scale |-> <<0, 10>>],
   generate_icon_preview |->
     [num_inference_steps |-> <<10, 50>>, guidance_scale |-> <<0, 10>>],
   upscale_image |->
     [creativity |-> <<0 - 10, 10>>, hdr |-> <<0 - 10, 10>>,
      resemblance |-> <<0 - 10, 10>>, fractality |-> <<0 - 10, 10>>],
   expand_image |->
     [left |-> <<0, 2048>>, right |-> <<0, 2048>>, top |-> <<0, 2048>>,
      bottom |-> <<0, 2048>>]]

\* the numeric properties whose schema declares no range
Unranged ==
  [search_icons |-> {"family_id"}, generate_flux_dev |-> {"seed"}]

\* the properties whose schema declares a default (full revision)
Defaults ==
  [search_resources |-> [page |-> Num(1), limit |-> Num(20)],
   search_icons |-> [page |-> Num(1), per_page |-> Num(20)],
   download_icon |-> [format |-> Str("svg"), png_size |-> Num(512)],
   download_resource |-> [image_size |-> Str("original")],
   generate_icon |-> [format |-> Str("png")],
   render_generated_icon |-> [format |-> Str("png")],
   generate_flux_dev |-> [aspect_ratio |-> Str("square_1_1")],
   reimagine_flux |-> [aspect_ratio |-> Str("original")]]

(***************************************************************************)
(* The handlers, up to their upstream call.  A handler is the list of the  *)
(* arguments it destructures (with the default it gives each), the method  *)
(* and path of its request, and the statements that fill the query string  *)
(* or the request body: which argument, under which key, under which       *)
(* condition, through which conversion.                                    *)
(***************************************************************************)
\* const { arg = dflt } = args  (dflt is Undef when the pattern gives none)
Arg(arg, dflt) == [arg |-> arg, dflt |-> dflt]

\* cond: "always"                      key: value / params.append(key, value)
\*       "truthy"                      if (value) ...
\*       "defined"                     if (value !== undefined) ...
\*       "png"                         if (format === "png" && png_size) ...
\*       "notoriginal"                 if (image_size && image_size !== "original") ...
\* conv: "raw" (the value as it is), "toString" (value.toString()),
\*       "min200" (Math.min(value, 200).toString())
Row(arg, key, cond, conv) == [arg |-> arg, key |-> key, cond |-> cond, conv |-> conv]

Lit(text) == [lit |-> TRUE, v |-> text]
Var(arg) == [lit |-> FALSE, v |-> arg]

\* body: "none" (a GET), "json" (an object), "form" (a url-encoded string)
HandlerOf(destructures, method, path, hasQuery, body, rows, contentType) ==
  [destructures |-> destructures, method |-> method, path |-> path,
   hasQuery |-> hasQuery, body |-> body, rows |-> rows, contentType |-> contentType]

\* the read handlers sending their query by POST
GetByPost(dest, path, hasQuery, rows) ==
  HandlerOf(dest, "POST", path, hasQuery, "none", rows, "")

Get(dest, path, hasQuery, rows) == HandlerOf(dest, "GET", path, hasQuery, "none", rows, "")
PostJson(dest, path, rows) ==
  HandlerOf(dest, "POST", path, FALSE, "json", rows, "application/json")

\* a reduced revision that sends limit as given, without Math.min
searchResourcesUnclampedReduced(rev) ==
  Get(<< Arg("query", Str("")), Arg("page", Num(1)), Arg("limit", Num(20)),
         Arg("orientation", Undef), Arg("content_type", Undef), Arg("color", Undef),
         Arg("people_age", Undef), Arg("people_gender", Undef) >>,
      << Lit("/resources") >>, TRUE,
      << Row("query", IF rev = "full" THEN "term" ELSE "q", "truthy", "raw"),
         Row("page", "page", "always", "toString"),
         Row("limit", "limit", "always", IF rev = "full" THEN "min200" ELSE "toString"),
         Row("orientation", "orientation", "truthy", "raw"),
         Row("content_type", "content_type", "truthy", "raw"),
         Row("color", "color", "truthy", "raw"),
         Row("people_age", "people_age", "truthy", "raw"),
         Row("people_gender", "people_gender", "truthy", "raw") >>)

searchResources(rev) ==
  IF rev = "full"
  THEN Get(<< Arg("query", Str("")), Arg("page", Num(1)), Arg("limit", Num(20)),
              Arg("orientation", Undef), Arg("order", Undef), Arg("license", Undef),
              Arg("content_type", Undef), Arg("color", Undef),
              Arg("people_age", Undef), Arg("people_gender", Undef),
              Arg("people_number", Undef), Arg("people_ethnicity", Undef),
              Arg("ai_generated", Undef) >>,
           << Lit("/resources") >>, TRUE,
           << Row("query", "term", "truthy", "raw"),
              Row("page", "page", "always", "toString"),
              Row("limit", "limit", "always", "min200"),
              Row("orientation", "orientation", "truthy", "raw"),
              Row("order", "order", "truthy", "raw"),
              Row("license", "license", "truthy", "raw"),
              Row("content_type", "content_type", "truthy", "raw"),
              Row("color", "color", "truthy", "raw"),
              Row("people_age", "people_age", "truthy", "raw"),
              Row("people_gender", "people_gender", "truthy", "raw"),
              Row("people_number", "people_number", "truthy", "raw"),
              Row("people_ethnicity", "people_ethnicity", "truthy", "raw"),
              Row("ai_generated", "ai_generated", "defined", "toString") >>)
  ELSE Get(<< Arg("query", Str("")), Arg("page", Num(1)), Arg("limit", Num(20)),
              Arg("orientation", Undef), Arg("content_type", Undef),
              Arg("color", Undef), Arg("people_age", Undef),
              Arg("people_gender", Undef) >>,
           << Lit("/resources") >>, TRUE,
           << Row("query", "q", "truthy", "raw"),
              Row("page", "page", "always", "toString"),
              Row("limit", "limit", "always", "min200"),
              Row("orientation", "orientation", "truthy", "raw"),
              Row("content_type", "content_type", "truthy", "raw"),
              Row("color", "color", "truthy", "raw"),
              Row("people_age", "people_age", "truthy", "raw"),
              Row("people_gender", "people_gender", "truthy", "raw") >>)

searchIcons ==
  Get(<< Arg("term", Undef), Arg("slug", Undef), Arg("page", Num(1)),
         Arg("per_page", Num(20)), Arg("family_id", Undef), Arg("order", Undef),
         Arg("color", Undef), Arg("shape", Undef), Arg("free_svg", Undef) >>,
      << Lit("/icons") >>, TRUE,
      << Row("term", "term", "truthy", "raw"),
         Row("slug", "slug", "truthy", "raw"),
         Row("page", "page", "always", "toString"),
         Row("per_page", "per_page", "always", "toString"),
         Row("family_id", "family-id", "truthy", "toString"),
         Row("order", "order", "truthy", "raw"),
         Row("color", "color", "truthy", "raw"),
         Row("shape", "shape", "truthy", "raw"),
         Row("free_svg", "free_svg", "defined", "toString") >>)

downloadIcon ==
  Get(<< Arg("icon_id", Undef), Arg("format", Str("svg")), Arg("png_size", Num(512)) >>,
      << Lit("/icons/"), Var("icon_id"), Lit("/download") >>, TRUE,
      << Row("format", "format", "truthy", "raw"),
         Row("png_size", "png_size", "png", "toString") >>)

downloadResource ==
  Get(<< Arg("resource_id", Undef), Arg("image_size", Str("original")) >>,
      << Lit("/resources/"), Var("resource_id"), Lit("/download") >>, TRUE,
      << Row("image_size", "image_size", "notoriginal", "raw") >>)

\* a handler that also takes a size nobody declared
downloadResourceFormatSized ==
  Get(<< Arg("resource_id", Undef), Arg("format", Undef), Arg("size", Undef) >>,
      << Lit("/resources/"), Var("resource_id"), Lit("/download/"), Var("format") >>,
      FALSE, << >>)

downloadResourceFormat ==
  Get(<< Arg("resource_id", Undef), Arg("format", Undef) >>,
      << Lit("/resources/"), Var("resource_id"), Lit("/download/"), Var("format") >>,
      FALSE, << >>)

generateIcon ==
  PostJson(<< Arg("prompt", Undef), Arg("webhook_url", Undef), Arg("format", Str("png")),
              Arg("style", Undef), Arg("num_inference_steps", Undef),
              Arg("guidance_scale", Undef) >>,
           << Lit("/ai/text-to-icon") >>,
           << Row("prompt", "prompt", "always", "raw"),
              Row("webhook_url", "webhook_url", "always", "raw"),
              Row("format", "format", "truthy", "raw"),
              Row("style", "style", "truthy", "raw"),
              Row("num_inference_steps", "num_inference_steps", "truthy", "raw"),
              Row("guidance_scale", "guidance_scale", "truthy", "raw") >>)

generateIconPreview ==
  PostJson(<< Arg("prompt", Undef), Arg("webhook_url", Undef), Arg("style", Undef),
              Arg("num_inference_steps", Undef), Arg("guidance_scale", Undef) >>,
           << Lit("/ai/text-to-icon/preview") >>,
           << Row("prompt", "prompt", "always", "raw"),
              Row("webhook_url", "webhook_url", "always", "raw"),
              Row("style", "style", "truthy", "raw"),
              Row("num_inference_steps", "num_inference_steps", "truthy", "raw"),
              Row("guidance_scale", "guidance_scale", "truthy", "raw") >>)

renderGeneratedIcon ==
  PostJson(<< Arg("task_id", Undef), Arg("format", Str("png")) >>,
           << Lit("/ai/text-to-icon/"), Var("task_id"), Lit("/render/"), Var("format") >>,
           << >>)

generateMystic ==
  PostJson(<< Arg("prompt", Undef), Arg("webhook_url", Undef),
              Arg("structure_reference", Undef), Arg("style_reference", Undef),
              Arg("resolution", Undef), Arg("aspect_ratio", Undef), Arg("model", Undef) >>,
           << Lit("/ai/mystic") >>,
           << Row("prompt", "prompt", "always", "raw"),
              Row("webhook_url", "webhook_url", "truthy", "raw"),
              Row("structure_reference", "structure_reference", "truthy", "raw"),
              Row("style_reference", "style_reference", "truthy", "raw"),
              Row("resolution", "resolution", "truthy", "raw"),
              Row("aspect_ratio", "aspect_ratio", "truthy", "raw"),
              Row("model", "model", "truthy", "raw") >>)

\* getMysticTask, getFluxDevTask, getUpscalerTask, getExpandTask
getTask(prefix) ==
  Get(<< Arg("task_id", Undef) >>, << Lit(prefix \o "/"), Var("task_id") >>, FALSE, << >>)

\* listMysticTasks, listFluxDevTasks, listUpscalerTasks, listExpandTasks: args is not read
listTasks(prefix) == Get(<< >>, << Lit(prefix) >>, FALSE, << >>)

generateFluxDev ==
  PostJson(<< Arg("prompt", Undef), Arg("webhook_url", Undef), Arg("aspect_ratio", Undef),
              Arg("styling", Undef), Arg("seed", Undef) >>,
           << Lit("/ai/text-to-image/flux-dev") >>,
           << Row("prompt", "prompt", "always", "raw"),
              Row("webhook_url", "webhook_url", "truthy", "raw"),
              Row("aspect_ratio", "aspect_ratio", "truthy", "raw"),
              Row("styling", "styling", "truthy", "raw"),
              Row("seed", "seed", "truthy", "raw") >>)

reimagineFlux ==
  PostJson(<< Arg("image", Undef), Arg("prompt", Undef), Arg("webhook_url", Undef),
              Arg("imagination", Undef), Arg("aspect_ratio", Undef) >>,
           << Lit("/ai/beta/text-to-image/reimagine-flux") >>,
           << Row("image", "image", "always", "raw"),
              Row("prompt", "prompt", "truthy", "raw"),
              Row("webhook_url", "webhook_url", "truthy", "raw"),
              Row("imagination", "imagination", "truthy", "raw"),
              Row("aspect_ratio", "aspect_ratio", "truthy", "raw") >>)

upscaleImage ==
  PostJson(<< Arg("image", Undef), Arg("webhook_url", Undef), Arg("scale_factor", Undef),
              Arg("optimized_for", Undef), Arg("prompt", Undef), Arg("creativity", Undef),
              Arg("hdr", Undef), Arg("resemblance", Undef), Arg("fractality", Undef),
              Arg("engine", Undef) >>,
           << Lit("/ai/image-upscaler") >>,
           << Row("image", "image", "always", "raw"),
              Row("webhook_url", "webhook_url", "truthy", "raw"),
              Row("scale_factor", "scale_factor", "truthy", "raw"),
              Row("optimized_for", "optimized_for", "truthy", "raw"),
              Row("prompt", "prompt", "truthy", "raw"),
              Row("creativity", "creativity", "defined", "raw"),
              Row("hdr", "hdr", "defined", "raw"),
              Row("resemblance", "resemblance", "defined", "raw"),
              Row("fractality", "fractality", "defined", "raw"),
              Row("engine", "engine", "truthy", "raw") >>)

\* the image URL posted as a JSON object, as the other POST handlers do
removeBackgroundJson ==
  PostJson(<< Arg("image_url", Undef) >>, << Lit("/ai/beta/remove-background") >>,
           << Row("image_url", "image_url", "always", "raw") >>)

\* the body is the string `image_url=${encodeURIComponent(image_url)}`
removeBackground ==
  HandlerOf(<< Arg("image_url", Undef) >>, "POST", << Lit("/ai/beta/remove-background") >>,
            FALSE, "form", << Row("image_url", "image_url", "always", "uri") >>,
            "application/x-www-form-urlencoded")

expandImage ==
  PostJson(<< Arg("image", Undef), Arg("prompt", Undef), Arg("left", Undef),
              Arg("right", Undef), Arg("top", Undef), Arg("bottom", Undef),
              Arg("webhook_url", Undef) >>,
           << Lit("/ai/image-expand/flux-pro") >>,
           << Row("image", "image", "always", "raw"),
              Row("prompt", "prompt", "truthy", "raw"),
              Row("left", "left", "defined", "raw"),
              Row("right", "right", "defined", "raw"),
              Row("top", "top", "defined", "raw"),
              Row("bottom", "bottom", "defined", "raw"),
              Row("webhook_url", "webhook_url", "truthy", "raw") >>)

getResourceDetails ==
  Get(<< Arg("resource_id", Undef) >>, << Lit("/resources/"), Var("resource_id") >>,
      FALSE, << >>)

\* the argument names a handler reads: those of its destructuring pattern
Reads(h) == {h.destructures[i].arg : i \in DOMAIN h.destructures}

\* the arguments a handler treats as mandatory: it gives them no default and
\* uses them unconditionally, in the path or in an unguarded statement
Mandatory(h) ==
  {h.destructures[i].arg : i \in
     {j \in DOMAIN h.destructures :
        /\ h.destructures[j].dflt = Undef
        /\ \/ \E k \in DOMAIN h.path :
                ~h.path[k].lit /\ h.path[k].v = h.destructures[j].arg
           \/ \E k \in DOMAIN h.rows :
                h.rows[k].cond = "always" /\ h.rows[k].arg = h.destructures[j].arg}}

\* the tools section of smithery.yaml
SmitheryTools ==
  {"search_resources", "search_icons", "download_icon", "download_resource",
   "download_resource_format", "generate_icon", "generate_icon_preview",
   "render_generated_icon", "generate_mystic", "get_mystic_task", "list_mystic_tasks",
   "generate_flux_dev", "get_flux_dev_task", "list_flux_dev_tasks", "reimagine_flux",
   "upscale_image", "get_upscaler_task", "list_upscaler_tasks", "remove_background",
   "expand_image", "get_expand_task", "list_expand_tasks", "get_resource_details"}

\* a switch without the case for get_resource_details
CasesOfWithoutDetails(rev) ==
  IF rev = "full" THEN SmitheryTools \ {"get_resource_details"} ELSE {"search_resources"}

\* the switch of the CallTool handler: the names each revision has a case for
CasesOf(rev) ==
  IF rev = "full"
  THEN {"search_resources", "search_icons", "download_icon", "download_resource",
        "download_resource_format", "generate_icon", "generate_icon_preview",
        "render_generated_icon", "generate_mystic", "get_mystic_task",
        "list_mystic_tasks", "generate_flux_dev", "get_flux_dev_task",
        "list_flux_dev_tasks", "reimagine_flux", "upscale_image", "get_upscaler_task",
        "list_upscaler_tasks", "remove_background", "expand_image", "get_expand_task",
        "list_expand_tasks", "get_resource_details"}
  ELSE {"search_resources", "get_resource_details"}

\* the method a case of the switch calls
Handler(rev, name) ==
  CASE name = "search_resources" -> searchResources(rev)
    [] name = "search_icons" -> searchIcons
    [] name = "download_icon" -> downloadIcon
    [] name = "download_resource" -> downloadResource
    [] name = "download_resource_format" -> downloadResourceFormat
    [] name = "generate_icon" -> generateIcon
    [] name = "generate_icon_preview" -> generateIconPreview
    [] name = "render_generated_icon" -> renderGeneratedIcon
    [] name = "generate_mystic" -> generateMystic
    [] name = "get_mystic_task" -> getTask("/ai/mystic")
    [] name = "list_mystic_tasks" -> listTasks("/ai/mystic")
    [] name = "generate_flux_dev" -> generateFluxDev
    [] name = "get_flux_dev_task" -> getTask("/ai/text-to-image/flux-dev")
    [] name = "list_flux_dev_tasks" -> listTasks("/ai/text-to-image/flux-dev")
    [] name = "reimagine_flux" -> reimagineFlux
    [] name = "upscale_image" -> upscaleImage
    [] name = "get_upscaler_task" -> getTask("/ai/image-upscaler")
    [] name = "list_upscaler_tasks" -> listTasks("/ai/image-upscaler")
    [] name = "remove_background" -> removeBackground
    [] name = "expand_image" -> expandImage
    [] name = "get_expand_task" -> getTask("/ai/image-expand/flux-pro")
    [] name = "list_expand_tasks" -> listTasks("/ai/image-expand/flux-pro")
    [] name = "get_resource_details" -> getResourceDetails

(***************************************************************************)
(* Argument resolution and request construction                            *)
(***************************************************************************)
\* request.params.arguments: an object, or undefined when the request has none
EmptyProps == [k \in {} |-> Undef]
NoArguments == [present |-> FALSE, props |-> EmptyProps]
Arguments(props) == [present |-> TRUE, props |-> props]

Lookup(args, k) == IF k \in DOMAIN args.props THEN args.props[k] ELSE Undef

\* const { a = d, b, ... } = args || {}: arguments left out read as an empty
\* object
DestructureOrEmpty(h, args) ==
  IF h.destructures = << >> THEN Ok(EmptyProps)
  ELSE LET D == {h.destructures[i].arg : i \in DOMAIN h.destructures}
           dflt(k) == h.destructures[CHOOSE i \in DOMAIN h.destructures :
                                       h.destructures[i].arg = k].dflt
       IN Ok([k \in D |-> IF Lookup(args, k) = Undef THEN dflt(k) ELSE Lookup(args, k)])

\* const { a = d, b, ... } = args: a default replaces undefined only, and
\* destructuring undefined is a TypeError naming the first property
Destructure(h, args) ==
  IF h.destructures = << >> THEN Ok(EmptyProps)
  ELSE IF ~args.present
  THEN Threw("Cannot destructure property '" \o h.destructures[1].arg
             \o "' of 'args' as it is undefined.")
  ELSE LET D == {h.destructures[i].arg : i \in DOMAIN h.destructures}
           dflt(k) == h.destructures[CHOOSE i \in DOMAIN h.destructures :
                                       h.destructures[i].arg = k].dflt
       IN Ok([k \in D |-> IF Lookup(args, k) = Undef THEN dflt(k) ELSE Lookup(args, k)])

\* png_size appended whatever the format: if (png_size) ...
CondHoldsAnyFormat(row, r) ==
  CASE row.cond = "always" -> TRUE
    [] row.cond = "truthy" -> Truthy(r[row.arg])
    [] row.cond = "defined" -> r[row.arg] # Undef
    [] row.cond = "png" -> Truthy(r[row.arg])
    [] row.cond = "notoriginal" -> Truthy(r[row.arg]) /\ r[row.arg] # Str("original")

\* the condition guarding a statement, on the destructured values r
CondHolds(row, r) ==
  CASE row.cond = "always" -> TRUE
    [] row.cond = "truthy" -> Truthy(r[row.arg])
    [] row.cond = "defined" -> r[row.arg] # Undef
    [] row.cond = "png" -> r["format"] = Str("png") /\ Truthy(r[row.arg])
    [] row.cond = "notoriginal" -> Truthy(r[row.arg]) /\ r[row.arg] # Str("original")

\* the value a statement stores
Convert(row, v) ==
  CASE row.conv = "raw" -> Ok(v)
    [] row.conv = "toString" ->
         LET c == ToStringMethod(v) IN IF c.threw THEN c ELSE Ok(Str(c.value))
    [] row.conv = "min200" ->
         LET c == ToStringMethod(MathMin(v, Num(200)))
         IN IF c.threw THEN c ELSE Ok(Str(c.value))
    [] row.conv = "uri" -> Ok(Str(encodeURIComponent(v)))

\* the statements in order: the <<key, value>> pairs stored, or the first throw
RECURSIVE Fill(_, _)
Fill(rows, r) ==
  IF rows = << >> THEN Ok(<< >>)
  ELSE LET row == Head(rows)
       IN IF ~CondHolds(row, r) THEN Fill(Tail(rows), r)
          ELSE LET c == Convert(row, r[row.arg])
               IN IF c.threw THEN c
                  ELSE LET rest == Fill(Tail(rows), r)
                       IN IF rest.threw THEN rest
                          ELSE Ok(<< <<row.key, c.value>> >> \o rest.value)

\* URLSearchParams.append(key, value) stores String(value)
RECURSIVE Appended(_)
Appended(pairs) ==
  IF pairs = << >> THEN << >>
  ELSE << <<pairs[1][1], ToJSString(pairs[1][2])>> >> \o Appended(Tail(pairs))

\* `${this.baseUrl}/...${id}...`
RECURSIVE PathOf(_, _)
PathOf(segs, r) ==
  IF segs = << >> THEN ""
  ELSE (IF segs[1].lit THEN segs[1].v ELSE ToJSString(r[segs[1].v]))
       \o PathOf(Tail(segs), r)

NoRequest ==
  [method |-> "", url |-> "", params |-> << >>, bodyKind |-> "none", fields |-> << >>,
   form |-> "", apiKeyHeader |-> "", contentType |-> ""]

\* axios.post(url, requestBody): the object goes out as JSON.stringify makes
\* it, which leaves out the properties whose value is undefined and writes
\* null for those whose value is null
JsonBody(fields) == SelectSeq(fields, LAMBDA f : f[2] # Undef)

\* the headers object of the axios call
HeadersOf(q) ==
  << <<"x-freepik-api-key", q.apiKeyHeader>> >>
  \o (IF q.contentType = "" THEN << >> ELSE << <<"Content-Type", q.contentType>> >>)

\* requests whose headers leave the key out
BuildRequestWithoutKey(h, args, key) ==
  LET d == Destructure(h, args)
  IN IF d.threw THEN d
     ELSE LET r == d.value
              filled == Fill(h.rows, r)
          IN IF filled.threw THEN filled
             ELSE LET params == IF h.hasQuery THEN Appended(filled.value) ELSE << >>
                      url == baseUrl \o PathOf(h.path, r)
                             \o (IF h.hasQuery THEN "?" \o ParamsToString(params) ELSE "")
                  IN Ok([method |-> h.method, url |-> url, params |-> params,
                         bodyKind |-> h.body,
                         fields |-> IF h.body = "json" THEN filled.value ELSE << >>,
                         form |-> IF h.body = "form"
                                  THEN filled.value[1][1] \o "=" \o filled.value[1][2].s
                                  ELSE "",
                         apiKeyHeader |-> "", contentType |-> h.contentType])

\* a handler from its first statement to its axios call: the request it
\* issues, or the Error thrown before any request
BuildRequest(h, args, key) ==
  LET d == Destructure(h, args)
  IN IF d.threw THEN d
     ELSE LET r == d.value
              filled == Fill(h.rows, r)
          IN IF filled.threw THEN filled
             ELSE LET params == IF h.hasQuery THEN Appended(filled.value) ELSE << >>
                      url == baseUrl \o PathOf(h.path, r)
                             \o (IF h.hasQuery THEN "?" \o ParamsToString(params) ELSE "")
                  IN Ok([method |-> h.method, url |-> url, params |-> params,
                         bodyKind |-> h.body,
                         fields |-> IF h.body = "json" THEN filled.value ELSE << >>,
                         form |-> IF h.body = "form"
                                  THEN filled.value[1][1] \o "=" \o filled.value[1][2].s
                                  ELSE "",
                         apiKeyHeader |-> key, contentType |-> h.contentType])

(***************************************************************************)
(* Response mapping.  response.data is one of the payload shapes below     *)
(* (field values are given as the strings template interpolation makes of  *)
(* them), or Empty, an object with none of the fields a handler reads.     *)
(***************************************************************************)
Empty == [kind |-> "empty"]

\* response.data.data of the AI task endpoints (FreepikAITaskResponse):
\* generated and has_nsfw are optional
Generated(urls) == [present |-> TRUE, urls |-> urls]
NotGenerated == [present |-> FALSE, urls |-> << >>]
TaskPayload(task_id, status, generated, has_nsfw) ==
  [kind |-> "task", task_id |-> task_id, status |-> status, generated |-> generated,
   has_nsfw |-> has_nsfw]

\* FreepikIconGenerationResponse: task_id, task_status, generated at the top level
IconTaskPayload(task_id, task_status, generated) ==
  [kind |-> "icontask", task_id |-> task_id, task_status |-> task_status,
   generated |-> generated]

\* FreepikAITasksResponse
TasksPayload(items) == [kind |-> "tasks", items |-> items]

\* FreepikResponse / FreepikIconResponse: meta is flat (current_page, last_page,
\* total), nested under pagination, or absent
Meta(shape, total, page, last) ==
  [shape |-> shape, total |-> total, page |-> page, last |-> last]
ResourcesPayload(items, meta) == [kind |-> "resources", items |-> items, meta |-> meta]
IconsPayload(items, meta) == [kind |-> "icons", items |-> items, meta |-> meta]

DownloadPayload(filename, url) == [kind |-> "download", filename |-> filename, url |-> url]

\* FreepikRemoveBackgroundResponse, with a further field the upstream may add
RemoveBackgroundPayload(original, high_resolution, preview, url, extra) ==
  [kind |-> "rmbg", original |-> original, high_resolution |-> high_resolution,
   preview |-> preview, url |-> url, extra |-> extra]

ResourcePayload(id, title, author, license, image_url, url) ==
  [kind |-> "resource", id |-> id, title |-> title, author |-> author,
   license |-> license, image_url |-> image_url, url |-> url]

\* reading a property of undefined
ReadOfUndefined(prop) ==
  Threw("Cannot read properties of undefined (reading '" \o prop \o "')")

\* value || fallback, interpolated
OrElse(v, fallback) == IF Truthy(v) THEN ToJSString(v) ELSE fallback

\* generated.map((url, index) => `${index + 1}. ${url}`).join("\n")
RECURSIVE NumberedUrls(_, _)
NumberedUrls(urls, i) ==
  IF i > Len(urls) THEN ""
  ELSE NumToString(i) \o ". " \o urls[i] \o (IF i < Len(urls) THEN "\n" ELSE "")
       \o NumberedUrls(urls, i + 1)

\* tasks.map((task, index) => `${index + 1}. **${task.task_id}** - Status: ${task.status}`)
\*      .join("\n")
RECURSIVE TaskLines(_, _)
TaskLines(items, i) ==
  IF i > Len(items) THEN ""
  ELSE NumToString(i) \o ". **" \o items[i].task_id \o "** - Status: " \o items[i].status
       \o (IF i < Len(items) THEN "\n" ELSE "") \o TaskLines(items, i + 1)

\* the blocks of the resources sorted by id, largest first
RECURSIVE ResourceBlocksById(_)
ResourceBlocksById(items) ==
  IF items = << >> THEN ""
  ELSE LET top == CHOOSE i \in DOMAIN items :
                    \A j \in DOMAIN items : ToNumber(Str(items[j].id)).n
                                               <= ToNumber(Str(items[i].id)).n
           rest == SubSeq(items, 1, top - 1) \o SubSeq(items, top + 1, Len(items))
       IN "**" \o items[top].title \o "**\n- ID: " \o items[top].id \o "\n- Author: "
          \o items[top].author \o "\n- License: " \o items[top].license \o "\n- Image: "
          \o items[top].image_url \o "\n- URL: " \o items[top].url
          \o (IF Len(items) > 1 THEN "\n\n" ELSE "") \o ResourceBlocksById(rest)

\* resources.map(r => `**${r.title}**\n- ID: ${r.id}...`).join("\n\n")
RECURSIVE ResourceBlocks(_)
ResourceBlocks(items) ==
  IF items = << >> THEN ""
  ELSE "**" \o items[1].title \o "**\n- ID: " \o items[1].id \o "\n- Author: "
       \o items[1].author \o "\n- License: " \o items[1].license \o "\n- Image: "
       \o items[1].image_url \o "\n- URL: " \o items[1].url
       \o (IF Len(items) > 1 THEN "\n\n" ELSE "") \o ResourceBlocks(Tail(items))

RECURSIVE IconBlocks(_)
IconBlocks(items) ==
  IF items = << >> THEN ""
  ELSE "**" \o items[1].name \o "**\n- ID: " \o items[1].id \o "\n- Author: "
       \o items[1].author \o "\n- Family: " \o items[1].family \o "\n- Tags: "
       \o items[1].tags \o "\n- PNG: " \o items[1].png \o "\n- SVG: " \o items[1].svg
       \o (IF Len(items) > 1 THEN "\n\n" ELSE "") \o IconBlocks(Tail(items))

searchResourcesText(rev, r, p) ==
  IF p.kind = "empty" THEN ReadOfUndefined("map")
  ELSE IF rev = "full"
  THEN IF p.meta.shape = "absent" THEN ReadOfUndefined("total")
       ELSE LET m(x) == IF p.meta.shape = "flat" THEN x ELSE "undefined"
            IN Ok("Found " \o m(p.meta.total) \o " resources (showing page "
                  \o m(p.meta.page) \o " of " \o m(p.meta.last) \o "):\n\n"
                  \o ResourceBlocks(p.items))
  ELSE IF p.meta.shape = "absent" THEN ReadOfUndefined("pagination")
       ELSE IF p.meta.shape = "flat" THEN ReadOfUndefined("total")
       ELSE Ok("Found " \o p.meta.total \o " resources (showing page "
               \o ToJSString(r["page"]) \o " of " \o p.meta.last \o "):\n\n"
               \o ResourceBlocks(p.items))

searchIconsText(p) ==
  IF p.kind = "empty" THEN ReadOfUndefined("map")
  ELSE IF p.meta.shape = "absent" THEN ReadOfUndefined("pagination")
  ELSE IF p.meta.shape = "flat" THEN ReadOfUndefined("total")
  ELSE Ok("Found " \o p.meta.total \o " icons (showing page " \o p.meta.page
          \o " of " \o p.meta.last \o "):\n\n" \o IconBlocks(p.items))

\* downloadIcon, downloadResource, downloadResourceFormat
downloadText(title, label, shown, p) ==
  IF p.kind = "empty" THEN ReadOfUndefined("filename")
  ELSE Ok("**" \o title \o " Download Ready**\n\n- **Filename**: " \o p.filename
          \o "\n- **" \o label \o "**: " \o ToJSString(shown) \o "\n- **Download URL**: "
          \o p.url
          \o "\n\n*Note: Download URL is temporary and should be used immediately.*")

generateIconText(r, p) ==
  Ok("**AI Icon Generation Started**\n\n- **Task ID**: "
     \o (IF p.kind = "icontask" THEN p.task_id ELSE "undefined")
     \o "\n- **Status**: " \o (IF p.kind = "icontask" THEN p.task_status ELSE "undefined")
     \o "\n- **Prompt**: " \o ToJSString(r["prompt"])
     \o "\n- **Format**: " \o ToJSString(r["format"])
     \o "\n- **Webhook URL**: " \o ToJSString(r["webhook_url"])
     \o "\n\n*The generation is running. Results will be sent to your webhook URL when complete. Use the task ID to check status or download the icon.*")

generateIconPreviewText(r, p) ==
  Ok("**AI Icon Preview Generation Started**\n\n- **Task ID**: "
     \o (IF p.kind = "icontask" THEN p.task_id ELSE "undefined")
     \o "\n- **Status**: " \o (IF p.kind = "icontask" THEN p.task_status ELSE "undefined")
     \o "\n- **Prompt**: " \o ToJSString(r["prompt"])
     \o "\n- **Webhook URL**: " \o ToJSString(r["webhook_url"])
     \o "\n\n*Preview generation is running. Results will be sent to your webhook URL when complete.*")

renderGeneratedIconText(r, p) ==
  LET head == "**Generated Icon Status**\n\n- **Task ID**: "
              \o (IF p.kind = "icontask" THEN p.task_id ELSE "undefined")
              \o "\n- **Status**: "
              \o (IF p.kind = "icontask" THEN p.task_status ELSE "undefined")
              \o "\n- **Format**: " \o ToJSString(r["format"])
  IN IF p.kind = "icontask" /\ p.generated.present /\ Len(p.generated.urls) > 0
     THEN Ok(head \o "\n\n**Generated Icons:**\n" \o NumberedUrls(p.generated.urls, 1))
     ELSE Ok(head \o "\n\n*Generation is still in progress. Check back later or wait for webhook notification.*")

\* generateMystic, generateFluxDev, reimagineFlux, upscaleImage, expandImage:
\* taskData = response.data.data, then the tool's own lines
startedText(title, lines, p) ==
  IF p.kind = "empty" THEN ReadOfUndefined("task_id")
  ELSE Ok("**" \o title \o "**\n\n- **Task ID**: " \o p.task_id \o "\n- **Status**: "
          \o p.status \o lines)

\* an if / else without the branch on status === "COMPLETED"
TaskSectionTwoWay(p, listHeader, progress) ==
  IF p.generated.present /\ Len(p.generated.urls) > 0
  THEN "\n\n**" \o listHeader \o ":**\n" \o NumberedUrls(p.generated.urls, 1)
  ELSE "\n\n*" \o progress \o " is still in progress.*"

\* a last section chosen by the status: the list only for a completed task,
\* and a phrase of its own for a failed one
TaskSectionByStatus(p, listHeader, progress) ==
  IF p.status = "COMPLETED"
  THEN IF p.generated.present /\ Len(p.generated.urls) > 0
       THEN "\n\n**" \o listHeader \o ":**\n" \o NumberedUrls(p.generated.urls, 1)
       ELSE "\n\n*Task completed but no images were generated.*"
  ELSE IF p.status = "FAILED"
       THEN "\n\n*" \o progress \o " failed.*"
       ELSE "\n\n*" \o progress \o " is still in progress.*"

\* the if / else if / else that ends getMysticTask, getFluxDevTask,
\* getUpscalerTask and getExpandTask
TaskSection(p, listHeader, progress) ==
  IF p.generated.present /\ Len(p.generated.urls) > 0
  THEN "\n\n**" \o listHeader \o ":**\n" \o NumberedUrls(p.generated.urls, 1)
  ELSE IF p.status = "COMPLETED"
       THEN "\n\n*Task completed but no images were generated.*"
       ELSE "\n\n*" \o progress \o " is still in progress.*"

getTaskText(title, listHeader, progress, showNsfw, p) ==
  IF p.kind = "empty" THEN ReadOfUndefined("task_id")
  ELSE Ok("**" \o title \o " Task Status**\n\n- **Task ID**: " \o p.task_id
          \o "\n- **Status**: " \o p.status
          \o (IF showNsfw /\ p.has_nsfw # "absent"
              THEN "\n- **NSFW Content**: " \o (IF p.has_nsfw = "true" THEN "Yes" ELSE "No")
              ELSE "")
          \o TaskSection(p, listHeader, progress))

listTasksText(title, p) ==
  IF p.kind = "empty" THEN ReadOfUndefined("map")
  ELSE LET tasksList == TaskLines(p.items, 1)
       IN Ok("**All " \o title \o " Tasks**\n\n"
             \o (IF tasksList # "" THEN tasksList ELSE "*No tasks found.*"))

removeBackgroundText(p) ==
  Ok("**Background Removed Successfully**\n\n- **Original**: "
     \o (IF p.kind = "rmbg" THEN p.original ELSE "undefined")
     \o "\n- **High Resolution**: "
     \o (IF p.kind = "rmbg" THEN p.high_resolution ELSE "undefined")
     \o "\n- **Preview**: " \o (IF p.kind = "rmbg" THEN p.preview ELSE "undefined")
     \o "\n- **Download URL**: " \o (IF p.kind = "rmbg" THEN p.url ELSE "undefined")
     \o "\n\n*Note: URLs are temporary and valid for only 5 minutes.*")

getResourceDetailsText(p) ==
  IF p.kind = "empty" THEN ReadOfUndefined("username")
  ELSE Ok("**Resource Details**\n\n- **ID**: " \o p.id \o "\n- **Title**: " \o p.title
          \o "\n- **Author**: " \o p.author \o "\n- **License**: " \o p.license
          \o "\n- **Image URL**: " \o p.image_url \o "\n- **Resource URL**: " \o p.url)

\* a handler from the resolved axios call to its return: the text of its
\* reply, or the Error thrown while reading the response
MapResponse(rev, name, r, p) ==
  CASE name = "search_resources" -> searchResourcesText(rev, r, p)
    [] name = "search_icons" -> searchIconsText(p)
    [] name = "download_icon" -> downloadText("Icon", "Format", r["format"], p)
    [] name = "download_resource" ->
         downloadText("Resource", "Image Size", r["image_size"], p)
    [] name = "download_resource_format" ->
         downloadText("Resource", "Format", r["format"], p)
    [] name = "generate_icon" -> generateIconText(r, p)
    [] name = "generate_icon_preview" -> generateIconPreviewText(r, p)
    [] name = "render_generated_icon" -> renderGeneratedIconText(r, p)
    [] name = "generate_mystic" ->
         startedText("Mystic AI Generation Started",
           "\n- **Prompt**: " \o ToJSString(r["prompt"])
           \o "\n- **Model**: " \o OrElse(r["model"], "default")
           \o "\n- **Resolution**: " \o OrElse(r["resolution"], "default")
           \o "\n\n*Ultra-realistic, high-resolution image generation is running. Results will be available via webhook or task status check.*",
           p)
    [] name = "get_mystic_task" -> getTaskText("Mystic", "Generated Images", "Generation", TRUE, p)
    [] name = "list_mystic_tasks" -> listTasksText("Mystic", p)
    [] name = "generate_flux_dev" ->
         startedText("Flux Dev Generation Started",
           "\n- **Prompt**: " \o ToJSString(r["prompt"])
           \o "\n- **Aspect Ratio**: " \o OrElse(r["aspect_ratio"], "square_1_1")
           \o "\n\n*AI image generation is running. Results will be available via webhook or task status check.*",
           p)
    [] name = "get_flux_dev_task" ->
         getTaskText("Flux Dev", "Generated Images", "Generation", FALSE, p)
    [] name = "list_flux_dev_tasks" -> listTasksText("Flux Dev", p)
    [] name = "reimagine_flux" ->
         startedText("Reimagine Flux Started",
           "\n- **Imagination Level**: " \o OrElse(r["imagination"], "default")
           \o "\n- **Aspect Ratio**: " \o OrElse(r["aspect_ratio"], "original")
           \o "\n\n*Image reimagining is running. This is a Beta feature.*",
           p)
    [] name = "upscale_image" ->
         startedText("Image Upscaling Started",
           "\n- **Scale Factor**: " \o OrElse(r["scale_factor"], "default")
           \o "\n- **Optimization**: " \o OrElse(r["optimized_for"], "standard")
           \o "\n\n*AI image upscaling is running. Results will be available via webhook or task status check.*",
           p)
    [] name = "get_upscaler_task" ->
         getTaskText("Upscaler", "Upscaled Images", "Upscaling", FALSE, p)
    [] name = "list_upscaler_tasks" -> listTasksText("Upscaler", p)
    [] name = "remove_background" -> removeBackgroundText(p)
    [] name = "expand_image" ->
         startedText("Image Expansion Started",
           "\n- **Expansion**: Left:" \o OrElse(r["left"], "0")
           \o " Right:" \o OrElse(r["right"], "0")
           \o " Top:" \o OrElse(r["top"], "0")
           \o " Bottom:" \o OrElse(r["bottom"], "0")
           \o "\n\n*AI image expansion using Flux Pro is running.*",
           p)
    [] name = "get_expand_task" ->
         getTaskText("Expand", "Expanded Images", "Expansion", FALSE, p)
    [] name = "list_expand_tasks" -> listTasksText("Expand", p)
    [] name = "get_resource_details" -> getResourceDetailsText(p)

(***************************************************************************)
(* The CallTool request handler: the switch, and the catch around it       *)
(***************************************************************************)
\* a handler that returns the title and the details as two blocks
ToolCallResultTwoBlocks(text) ==
  [content |-> << [type |-> "text", text |-> text], [type |-> "text", text |-> ""] >>]

\* what every handler returns: { content: [ { type: "text", text } ] }
ToolCallResult(text) == [content |-> << [type |-> "text", text |-> text] >>]

\* a switch on the lower-cased name
LowerCased(name) ==
  IF name \in {"Search_Resources", "SEARCH_RESOURCES"} THEN "search_resources" ELSE name

DispatchIgnoringCase(rev, name, args, key) ==
  IF LowerCased(name) \in CasesOf(rev)
  THEN BuildRequest(Handler(rev, LowerCased(name)), args, key)
  ELSE Threw("Unknown tool: " \o name)

\* a reduced revision whose getResourceDetails sends no key header
DispatchReducedUnkeyed(rev, name, args, key) ==
  IF rev = "reduced" /\ name = "get_resource_details"
  THEN BuildRequestWithoutKey(Handler(rev, name), args, key)
  ELSE IF name \in CasesOf(rev) THEN BuildRequest(Handler(rev, name), args, key)
       ELSE Threw("Unknown tool: " \o name)

\* switch (name): the matched handler up to its await, or the default's throw
Dispatch(rev, name, args, key) ==
  IF name \in CasesOf(rev) THEN BuildRequest(Handler(rev, name), args, key)
  ELSE Threw("Unknown tool: " \o name)

\* the upstream's answer to one request: no connection, a status outside 2xx
\* (axios rejects both with an Error), or 2xx with a payload
NetworkError(message) == [kind |-> "neterr", message |-> message, payload |-> Empty]
StatusError(code) ==
  [kind |-> "status",
   message |-> "Request failed with status code " \o NumToString(code),
   payload |-> Empty]
Success(payload) == [kind |-> "ok", message |-> "", payload |-> payload]
NoOutcome == [kind |-> "none", message |-> "", payload |-> Empty]

\* the handler after its await: the rejection rethrown, or the response mapped
Resume(rev, name, args, outcome) ==
  IF outcome.kind # "ok" THEN Threw(outcome.message)
  ELSE MapResponse(rev, name, Destructure(Handler(rev, name), args).value,
                   outcome.payload)

\* return handler(args) without await: a rejection passes the catch by
TryWithoutAwait(result) ==
  IF result.threw THEN [kind |-> "thrown", content |-> << >>]
  ELSE [kind |-> "reply", content |-> ToolCallResult(result.value).content]

\* try { return await handler(args) } catch (error) { return { content: [...] } }:
\* what the transport gets from a handler's result
TryCatch(result) ==
  IF result.threw
  THEN [kind |-> "reply", content |-> ToolCallResult("Error: " \o result.message).content]
  ELSE [kind |-> "reply", content |-> ToolCallResult(result.value).content]

NoOut == [kind |-> "none", content |-> << >>]
NoFailure == [raised |-> FALSE, message |-> ""]
FailureOf(result) == [raised |-> result.threw, message |-> result.message]

(***************************************************************************)
(* State: the revision that runs, the API key captured at startup, the     *)
(* CallTool invocations in progress and the number of upstream requests    *)
(* issued so far; the FREEPIK_API_KEY of the environment, how far the      *)
(* process has got, and the ListTools reply on its way to the client.      *)
(***************************************************************************)
VARIABLES rev, apiKey, call, sent, env, proc, listed

vars == <<rev, apiKey, call, sent, env, proc, listed>>

\* the upstream requests one run of the model issues at most
MaxSent == 2

ApiKeys == {"fpk-test-key"}

\* process.env.FREEPIK_API_KEY: not set, set to nothing, set to a key
Environments == {Undef, Str("")} \cup {Str(k) : k \in ApiKeys}

\* the process before `new FreepikMCPServer()`: no handler registered, no
\* transport connected, not exited
Launched == [phase |-> "start", registered |-> FALSE, connected |-> FALSE, exitCode |-> 0 - 1]

\* no ListTools reply on its way
NotListed == [given |-> FALSE, tools |-> << >>]

Idle ==
  [pc |-> "idle", name |-> "", args |-> NoArguments, req |-> NoRequest, nreq |-> 0,
   resp |-> NoOutcome, failure |-> NoFailure, out |-> NoOut]

(***************************************************************************)
(* The requests a client sends and the answers the upstream gives          *)
(***************************************************************************)
\* names no revision has a case for
UnknownNames ==
  {"unknown_tool", "Search_Resources", "SEARCH_RESOURCES", "search_resources ", ""}

RequestNames == CasesOf("full") \cup UnknownNames

\* per tool, the values tried for each argument (Undef: the argument is left out)
Choices(name) ==
  CASE name = "search_resources" ->
         [query |-> {Undef, Str(""), Str("a b&c")},
          page |-> {Undef, Num(2), Null},
          limit |-> {Undef, Num(0), Num(200), Num(201), Num(500), Null},
          orientation |-> {Undef, Str("landscape")}]
    [] name = "search_icons" ->
         [term |-> {Undef, Str("home")},
          page |-> {Undef, Num(3)},
          per_page |-> {Undef, Num(50)},
          family_id |-> {Undef, Num(0), Num(7)},
          free_svg |-> {Undef, Bool(TRUE), Bool(FALSE)}]
    [] name = "download_icon" ->
         [icon_id |-> {Undef, Num(15)},
          format |-> {Undef, Str("svg"), Str("png"), Str("gif"), Str(""), Null},
          png_size |-> {Undef, Num(256), Num(0), Null, Str("256")}]
    [] name = "download_resource" ->
         [resource_id |-> {Undef, Str("r1")},
          image_size |-> {Undef, Str("small"), Str("original"), Str("")}]
    [] name = "download_resource_format" ->
         [resource_id |-> {Undef, Str("r1")}, format |-> {Undef, Str("psd")}]
    [] name = "generate_icon" ->
         [prompt |-> {Undef, Str("a cat")},
          webhook_url |-> {Undef, Str("https://h.k/cb")},
          format |-> {Undef, Str("svg")},
          num_inference_steps |-> {Undef, Num(10), Num(60)},
          guidance_scale |-> {Undef, Num(0), Num(7), Num(11)}]
    [] name = "generate_icon_preview" ->
         [prompt |-> {Undef, Str("a cat")},
          webhook_url |-> {Undef, Str("https://h.k/cb")},
          style |-> {Undef, Str("flat")},
          guidance_scale |-> {Undef, Num(0)}]
    [] name = "render_generated_icon" ->
         [task_id |-> {Undef, Str("t1")}, format |-> {Undef, Str("svg"), Str("png")}]
    [] name = "generate_mystic" ->
         [prompt |-> {Undef, Str("a cat")},
          webhook_url |-> {Undef, Str("https://h.k/cb")},
          resolution |-> {Undef, Str("2k")},
          model |-> {Undef, Str("zen")}]
    [] name \in {"get_mystic_task", "get_flux_dev_task", "get_upscaler_task",
                 "get_expand_task"} ->
         [task_id |-> {Undef, Str("t1")}]
    [] name = "generate_flux_dev" ->
         [prompt |-> {Undef, Str("a cat")},
          aspect_ratio |-> {Undef, Str("classic_4_3")},
          styling |-> {Undef, Obj("styling")},
          seed |-> {Undef, Num(0), Num(42)}]
    [] name = "reimagine_flux" ->
         [image |-> {Undef, Str("aW1n")},
          prompt |-> {Undef, Str("a cat")},
          imagination |-> {Undef, Str("wild")},
          aspect_ratio |-> {Undef, Str("original"), Str("square_1_1")}]
    [] name = "upscale_image" ->
         [image |-> {Undef, Str("aW1n")},
          scale_factor |-> {Undef, Str("2x")},
          creativity |-> {Undef, Num(0), Num(0 - 3), Num(11), Null},
          hdr |-> {Undef, Num(5)},
          engine |-> {Undef, Str("magnific_sharpy")}]
    [] name = "remove_background" ->
         [image_url |-> {Undef, Null, Str(""), Str("img.png"),
                         Str("https://a.b/c d.png?x=1&y=2")}]
    [] name = "expand_image" ->
         [image |-> {Undef, Str("aW1n")},
          left |-> {Undef, Num(0), Num(100), Num(3000)},
          right |-> {Undef, Num(0)},
          bottom |-> {Undef, Num(2048)},
          webhook_url |-> {Undef, Str("https://h.k/cb")}]
    [] name = "get_resource_details" ->
         [resource_id |-> {Undef, Str("r1"), Num(12)},
          verbose |-> {Undef, Bool(TRUE)}]
    [] name = "unknown_tool" -> [query |-> {Undef, Str("cat")}]
    [] OTHER -> [k \in {} |-> {}]

\* every argument object over the choices for the keys D
RECURSIVE BagsOver(_, _)
BagsOver(D, choices) ==
  IF D = {} THEN {EmptyProps}
  ELSE LET k == CHOOSE x \in D : TRUE
       IN {IF v = Undef THEN f ELSE (k :> v) @@ f :
             f \in BagsOver(D \ {k}, choices), v \in choices[k]}

\* the arguments of a CallTool request: none at all, or an object
ArgumentsFor(name) ==
  {NoArguments}
  \cup {Arguments(f) : f \in BagsOver(DOMAIN Choices(name), Choices(name))}

Failures ==
  {NetworkError("connect ECONNREFUSED 104.18.1.10:443"), StatusError(401),
   StatusError(500)}

Urls == << "https://cdn.fp/1.png", "https://cdn.fp/2.png" >>

GeneratedLists == {NotGenerated, Generated(<< >>), Generated(SubSeq(Urls, 1, 1)),
                   Generated(Urls), Generated(<< Urls[2], Urls[1] >>)}

TaskItems ==
  << [task_id |-> "t1", status |-> "COMPLETED"], [task_id |-> "t2", status |-> "IN_PROGRESS"],
     [task_id |-> "t3", status |-> "FAILED"] >>

ResourceItems ==
  << [id |-> "101", title |-> "Red cat", url |-> "https://fp/r/101",
      image_url |-> "https://img.fp/101.jpg", author |-> "ann", license |-> "freemium"],
     [id |-> "102", title |-> "Blue dog", url |-> "https://fp/r/102",
      image_url |-> "https://img.fp/102.jpg", author |-> "bob", license |-> "premium"] >>

IconItems ==
  << [id |-> "7", name |-> "home", png |-> "https://img.fp/7.png",
      svg |-> "https://img.fp/7.svg", author |-> "ann", tags |-> "house, door",
      family |-> "basic"],
     [id |-> "8", name |-> "roof", png |-> "https://img.fp/8.png",
      svg |-> "https://img.fp/8.svg", author |-> "bob", tags |-> "",
      family |-> "lines"] >>

Metas == {Meta("flat", "57", "2", "3"), Meta("nested", "57", "2", "3"),
          Meta("absent", "", "", "")}

ItemLists(items) ==
  {<< >>, SubSeq(items, 1, 1), items, << items[2], items[1] >>}

\* the payloads tried for each tool's 2xx response
Payloads(name) ==
  {Empty}
  \cup
  CASE name = "search_resources" ->
         {ResourcesPayload(l, Meta("flat", "57", "2", "3")) : l \in ItemLists(ResourceItems)}
         \cup {ResourcesPayload(ResourceItems, m) : m \in Metas}
    [] name = "search_icons" ->
         {IconsPayload(l, Meta("nested", "57", "2", "3")) : l \in ItemLists(IconItems)}
         \cup {IconsPayload(IconItems, m) : m \in Metas}
    [] name \in {"download_icon", "download_resource", "download_resource_format"} ->
         {DownloadPayload("cat.zip", "https://dl.fp/cat.zip?token=abc")}
    [] name \in {"generate_icon", "generate_icon_preview"} ->
         {IconTaskPayload("t1", "CREATED", NotGenerated)}
    [] name = "render_generated_icon" ->
         {IconTaskPayload("t1", st, g) :
            st \in {"IN_PROGRESS", "COMPLETED"}, g \in GeneratedLists}
    [] name \in {"generate_mystic", "generate_flux_dev", "reimagine_flux",
                 "upscale_image", "expand_image"} ->
         {TaskPayload("t1", "CREATED", NotGenerated, "absent")}
    [] name \in {"get_mystic_task", "get_flux_dev_task", "get_upscaler_task",
                 "get_expand_task"} ->
         {TaskPayload("t1", st, g, "absent") :
            st \in {"IN_PROGRESS", "COMPLETED", "FAILED"}, g \in GeneratedLists}
         \cup {TaskPayload("t1", "COMPLETED", Generated(Urls), nsfw) :
                 nsfw \in {"true", "false"}}
    [] name \in {"list_mystic_tasks", "list_flux_dev_tasks", "list_upscaler_tasks",
                 "list_expand_tasks"} ->
         {TasksPayload(l) : l \in ItemLists(TaskItems) \cup {TaskItems}}
    [] name = "remove_background" ->
         {RemoveBackgroundPayload("https://bg.fp/o.png", "https://bg.fp/h.png",
                                  "https://bg.fp/p.png", "https://bg.fp/u.png",
                                  "https://bg.fp/x.png")}
    [] name = "get_resource_details" ->
         {ResourcePayload("101", "Red cat", "ann", "freemium",
                          "https://img.fp/101.jpg", "https://fp/r/101")}

Outcomes(name) == Failures \cup {Success(p) : p \in Payloads(name)}

(***************************************************************************)
(* Actions                                                                 *)
(***************************************************************************)
Init ==
  /\ rev \in Revisions
  /\ env \in Environments
  /\ apiKey = ""
  /\ proc = Launched
  /\ listed = NotListed
  /\ call = [c \in {1} |-> Idle]
  /\ sent = 0

\* a constructor that registers the handlers whatever the key
constructorUnchecked ==
  /\ proc.phase = "start"
  /\ apiKey' = (IF Truthy(env) THEN env.s ELSE "")
  /\ proc' = [proc EXCEPT !.phase = "constructed", !.registered = TRUE]
  /\ UNCHANGED <<rev, env, call, sent, listed>>

\* new FreepikMCPServer(): apiKey = process.env.FREEPIK_API_KEY || "";
\* without a key, process.exit(1); otherwise setupToolHandlers()
constructor ==
  /\ proc.phase = "start"
  /\ apiKey' = (IF Truthy(env) THEN env.s ELSE "")
  /\ IF apiKey' = ""
     THEN proc' = [proc EXCEPT !.phase = "exited", !.exitCode = 1]
     ELSE proc' = [proc EXCEPT !.phase = "constructed", !.registered = TRUE]
  /\ UNCHANGED <<rev, env, call, sent, listed>>

\* server.run(): the transport is connected and requests are served
run ==
  /\ proc.phase = "constructed"
  /\ proc' = [proc EXCEPT !.phase = "serving", !.connected = TRUE]
  /\ UNCHANGED <<rev, env, apiKey, call, sent, listed>>

\* a catalog that is turned round once a request has gone upstream
ListToolsByUse ==
  /\ proc.phase = "serving"
  /\ ~listed.given
  /\ listed' = [given |-> TRUE,
                tools |-> IF sent = 0 THEN listTools(rev)
                          ELSE [i \in DOMAIN listTools(rev) |->
                                  listTools(rev)[Len(listTools(rev)) + 1 - i]]]
  /\ UNCHANGED <<rev, env, apiKey, call, sent, proc>>

\* a catalog with its first descriptor listed once more at the end
ListToolsRepeating ==
  /\ proc.phase = "serving"
  /\ ~listed.given
  /\ listed' = [given |-> TRUE, tools |-> listTools(rev) \o << listTools(rev)[1] >>]
  /\ UNCHANGED <<rev, env, apiKey, call, sent, proc>>

\* the ListTools handler: async () => ({ tools: [...] }), a literal
ListTools ==
  /\ proc.phase = "serving"
  /\ ~listed.given
  /\ listed' = [given |-> TRUE, tools |-> listTools(rev)]
  /\ UNCHANGED <<rev, env, apiKey, call, sent, proc>>

\* the transport sends the ListTools reply
DeliverTools ==
  /\ listed.given
  /\ listed' = NotListed
  /\ UNCHANGED <<rev, env, apiKey, call, sent, proc>>

\* a dispatcher that looks every name up at the upstream before its switch
CallToolWithLookup(c, name, args) ==
  LET result == Dispatch(rev, name, args, apiKey)
  IN /\ proc.phase = "serving"
     /\ call[c].pc = "idle"
     /\ sent < MaxSent
     /\ IF result.threw
        THEN /\ call' = [call EXCEPT ![c] =
                           [Idle EXCEPT !.pc = "done", !.name = name, !.args = args,
                                        !.nreq = 1,
                                        !.failure = FailureOf(result),
                                        !.out = TryCatch(result)]]
             /\ sent' = sent + 1
        ELSE /\ call' = [call EXCEPT ![c] =
                           [Idle EXCEPT !.pc = "awaiting", !.name = name, !.args = args,
                                        !.req = result.value, !.nreq = 1]]
             /\ sent' = sent + 1
     /\ UNCHANGED <<rev, apiKey, env, proc, listed>>

\* the transport hands a CallTool request to the handler, which runs up to
\* its first await: the switch's default or a failing argument statement
\* throws into the catch and the reply is made at once; otherwise the
\* handler's one axios call is issued and the handler is suspended on it
CallToolWith(c, name, args) ==
  LET result == Dispatch(rev, name, args, apiKey)
  IN /\ proc.phase = "serving"
     /\ call[c].pc = "idle"
     /\ sent < MaxSent
     /\ IF result.threw
        THEN /\ call' = [call EXCEPT ![c] =
                           [Idle EXCEPT !.pc = "done", !.name = name, !.args = args,
                                        !.failure = FailureOf(result),
                                        !.out = TryCatch(result)]]
             /\ sent' = sent
        ELSE /\ call' = [call EXCEPT ![c] =
                           [Idle EXCEPT !.pc = "awaiting", !.name = name, !.args = args,
                                        !.req = result.value, !.nreq = 1]]
             /\ sent' = sent + 1
     /\ UNCHANGED <<rev, apiKey, env, proc, listed>>

CallTool(c) ==
  \E name \in RequestNames : \E args \in ArgumentsFor(name) : CallToolWith(c, name, args)

\* a client that sends a failed request once more
UpstreamRespondsRetrying(c, outcome) ==
  LET result == Resume(rev, call[c].name, call[c].args, outcome)
  IN /\ call[c].pc = "awaiting"
     /\ IF outcome.kind # "ok" /\ call[c].nreq < 2
        THEN /\ call' = [call EXCEPT ![c].nreq = @ + 1]
             /\ sent' = sent + 1
        ELSE /\ call' = [call EXCEPT ![c].pc = "done", ![c].resp = outcome,
                                     ![c].failure = FailureOf(result),
                                     ![c].out = TryCatch(result)]
             /\ sent' = sent
     /\ UNCHANGED <<rev, apiKey, env, proc, listed>>

\* one response slot for the whole server: an answer settles every call that
\* is waiting, each with that answer
UpstreamRespondsShared(c, outcome) ==
  /\ call[c].pc = "awaiting"
  /\ call' = [d \in DOMAIN call |->
               IF call[d].pc = "awaiting"
               THEN [call[d] EXCEPT
                       !.pc = "done", !.resp = outcome,
                       !.failure = FailureOf(Resume(rev, call[d].name, call[d].args, outcome)),
                       !.out = TryCatch(Resume(rev, call[d].name, call[d].args, outcome))]
               ELSE call[d]]
  /\ UNCHANGED <<rev, apiKey, sent, env, proc, listed>>

\* the upstream answers the request: axios resolves or rejects, the handler
\* resumes, and its result or its Error goes through the catch to the reply
UpstreamRespondsWith(c, outcome) ==
  LET result == Resume(rev, call[c].name, call[c].args, outcome)
  IN /\ call[c].pc = "awaiting"
     /\ call' = [call EXCEPT ![c].pc = "done", ![c].resp = outcome,
                             ![c].failure = FailureOf(result),
                             ![c].out = TryCatch(result)]
     /\ UNCHANGED <<rev, apiKey, sent, env, proc, listed>>

UpstreamResponds(c) ==
  /\ call[c].pc = "awaiting"
  /\ \E outcome \in Outcomes(call[c].name) : UpstreamRespondsWith(c, outcome)

\* a reply whose sending clears the key
DeliverClearingKey(c) ==
  /\ call[c].pc = "done"
  /\ call' = [call EXCEPT ![c] = Idle]
  /\ apiKey' = ""
  /\ UNCHANGED <<rev, sent, env, proc, listed>>

\* the transport sends the reply; nothing of the call is kept
Deliver(c) ==
  /\ call[c].pc = "done"
  /\ call' = [call EXCEPT ![c] = Idle]
  /\ UNCHANGED <<rev, apiKey, sent, env, proc, listed>>

Next ==
  \/ constructor
  \/ run
  \/ ListTools
  \/ DeliverTools
  \/ \E c \in DOMAIN call : CallTool(c) \/ UpstreamResponds(c) \/ Deliver(c)

Spec == Init /\ [][Next]_vars

(***************************************************************************)
(* Overlapping calls: the host may hand the server a second CallTool        *)
(* request while the handler of the first is suspended on its axios call.  *)
(* Two calls in flight, over a smaller set of requests and answers.        *)
(***************************************************************************)
OverlapNames == {"search_resources", "get_resource_details", "unknown_tool"}

OverlapArguments(name) ==
  CASE name = "search_resources" ->
         {NoArguments, Arguments(EmptyProps), Arguments([query |-> Str("a b&c")]),
          Arguments([limit |-> Num(500)])}
    [] name = "get_resource_details" ->
         {Arguments(EmptyProps), Arguments([resource_id |-> Str("r1")])}
    [] OTHER -> {Arguments(EmptyProps)}

OverlapOutcomes(name) ==
  {NetworkError("connect ECONNREFUSED 104.18.1.10:443"), StatusError(500)}
  \cup
  CASE name = "search_resources" ->
         {Success(ResourcesPayload(ResourceItems, m)) :
            m \in {Meta("flat", "57", "2", "3"), Meta("nested", "57", "2", "3")}}
    [] name = "get_resource_details" ->
         {Success(ResourcePayload("101", "Red cat", "ann", "freemium",
                                  "https://img.fp/101.jpg", "https://fp/r/101"))}
    [] OTHER -> {}

InitOverlap ==
  /\ rev \in Revisions
  /\ env \in Environments
  /\ apiKey = ""
  /\ proc = Launched
  /\ listed = NotListed
  /\ call = [c \in {1, 2} |-> Idle]
  /\ sent = 0

CallToolOverlap(c) ==
  \E name \in OverlapNames : \E args \in OverlapArguments(name) :
    CallToolWith(c, name, args)

UpstreamRespondsOverlap(c) ==
  /\ call[c].pc = "awaiting"
  /\ \E outcome \in OverlapOutcomes(call[c].name) : UpstreamRespondsWith(c, outcome)

NextOverlap ==
  \/ constructor
  \/ run
  \/ \E c \in DOMAIN call :
       CallToolOverlap(c) \/ UpstreamRespondsOverlap(c) \/ Deliver(c)

SpecOverlap == InitOverlap /\ [][NextOverlap]_vars

(***************************************************************************)
(* search_resources over the parameters both revisions declare             *)
(***************************************************************************)
SearchChoices ==
  [query |-> {Undef, Str(""), Str("a b&c")},
   page |-> {Undef, Num(2), Null},
   limit |-> {Undef, Num(500)},
   orientation |-> {Undef, Str("landscape")},
   content_type |-> {Undef, Str("photo")},
   color |-> {Undef, Str("red")},
   people_age |-> {Undef, Str("adult")},
   people_gender |-> {Undef, Str("female")}]

CallToolSearch(c) ==
  \E args \in {Arguments(f) : f \in BagsOver(DOMAIN SearchChoices, SearchChoices)} :
    CallToolWith(c, "search_resources", args)

NextSearch ==
  \/ constructor
  \/ run
  \/ \E c \in DOMAIN call :
       CallToolSearch(c) \/ UpstreamRespondsOverlap(c) \/ Deliver(c)

SpecSearch == Init /\ [][NextSearch]_vars

(***************************************************************************)
(* Vocabulary of the properties                                            *)
(***************************************************************************)
StartsWith(s, p) == Len(s) >= Len(p) /\ SubSeq(s, 1, Len(p)) = p

Occurrences(s, p) == {i \in 1..(Len(s) - Len(p) + 1) : SubSeq(s, i, i + Len(p) - 1) = p}

Contains(s, p) == Occurrences(s, p) # {}

EndsWith(s, p) == Len(s) >= Len(p) /\ SubSeq(s, Len(s) - Len(p) + 1, Len(s)) = p

\* the values a query string carries under a key
ParamValues(params, key) == {params[i][2] : i \in {j \in DOMAIN params : params[j][1] = key}}

ParamCount(params, key) == Cardinality({j \in DOMAIN params : params[j][1] = key})

Calls == DOMAIN call

Started(c) == call[c].pc \in {"awaiting", "done"}

\* the handler of call c got as far as its axios call
Issued(c) == call[c].pc = "awaiting" \/ (call[c].pc = "done" /\ call[c].resp.kind # "none")

Replied(c) == call[c].pc = "done"

TextOf(c) == call[c].out.content[1].text

ErrorReply(message) ==
  [kind |-> "reply", content |-> << [type |-> "text", text |-> "Error: " \o message] >>]

(***************************************************************************)
(* Properties                                                              *)
(***************************************************************************)
\* C1: a call whose name is not exactly, letter case included, the name of a
\* tool of the catalog is answered at once, by a normal reply whose one text
\* is "Error: Unknown tool: " followed by the name as supplied.
C1_UnknownToolReply ==
  \A c \in Calls :
    (Started(c) /\ call[c].name \notin ToolNamesOf(rev)) =>
      /\ Replied(c)
      /\ call[c].out = ErrorReply("Unknown tool: " \o call[c].name)

C1_Witness ==
  \E c \in Calls :
    /\ Replied(c)
    /\ call[c].name = "Search_Resources"
    /\ TextOf(c) = "Error: Unknown tool: Search_Resources"

\* C2: whatever fails while a handler runs (no connection, a status outside
\* 2xx, a response without the fields the handler reads, an argument the
\* handler cannot use), the call ends in a reply of one text block that is
\* "Error: " followed by the failure's message; nothing is thrown past the
\* dispatcher.
C2_FailuresBecomeErrorReplies ==
  \A c \in Calls :
    /\ call[c].out.kind # "thrown"
    /\ (Replied(c) /\ call[c].failure.raised) =>
         call[c].out = ErrorReply(call[c].failure.message)
    /\ (Replied(c) /\ call[c].resp.kind \in {"neterr", "status"}) =>
         /\ call[c].failure.raised
         /\ call[c].out = ErrorReply(call[c].resp.message)
    /\ (Replied(c) /\ call[c].name \in CasesOf(rev) /\ ~call[c].args.present
        /\ Handler(rev, call[c].name).destructures # << >>) =>
         /\ call[c].failure.raised
         /\ StartsWith(TextOf(c), "Error: Cannot destructure property '")
    /\ (Replied(c) /\ call[c].resp.kind = "ok" /\ call[c].resp.payload = Empty
        /\ call[c].name \notin {"generate_icon", "generate_icon_preview",
                                "render_generated_icon", "remove_background"}) =>
         /\ call[c].failure.raised
         /\ StartsWith(TextOf(c), "Error: Cannot read properties of undefined (reading '")

C2_Witness ==
  \E c \in Calls :
    /\ Replied(c)
    /\ call[c].name = "generate_mystic"
    /\ call[c].resp.kind = "neterr"
    /\ TextOf(c) = "Error: connect ECONNREFUSED 104.18.1.10:443"

\* C3: every reply of a call, success and failure alike, is { content: [...] }
\* with exactly one element, and that element has type "text".
C3_OneTextBlock ==
  \A c \in Calls :
    /\ Replied(c) => call[c].out.kind = "reply"
    /\ call[c].out.kind # "none" =>
         /\ Len(call[c].out.content) = 1
         /\ call[c].out.content[1].type = "text"

C3_Witness ==
  \E c \in Calls :
    /\ Replied(c)
    /\ call[c].name = "get_mystic_task"
    /\ ~call[c].failure.raised
    /\ Len(call[c].out.content) = 1
    /\ StartsWith(TextOf(c), "**Mystic Task Status**")

\* C4: a call whose handler reaches its upstream call issues exactly one
\* request, whether the request succeeds or fails; a failed request is not
\* sent again, so a failed call is one request and one error text.
C4_OneRequestPerCall ==
  \A c \in Calls :
    /\ Issued(c) => call[c].nreq = 1
    /\ ~Issued(c) => call[c].nreq = 0
    /\ (Replied(c) /\ call[c].resp.kind \in {"neterr", "status"}) =>
         /\ call[c].nreq = 1
         /\ Len(call[c].out.content) = 1
         /\ StartsWith(TextOf(c), "Error: ")

C4_Witness ==
  \E c \in Calls :
    /\ Replied(c)
    /\ call[c].name = "list_mystic_tasks"
    /\ call[c].resp.kind = "status"
    /\ call[c].nreq = 1
    /\ TextOf(c) = "Error: Request failed with status code 500"

\* C5: search_resources sends limit as min(limit, 200) for a numeric limit, so
\* never more than 200 (500 is sent as 200), and sends 20 when limit is
\* absent; in both revisions.
C5_LimitClamped ==
  \A c \in Calls :
    (call[c].name = "search_resources" /\ Issued(c)) =>
      LET limit == Lookup(call[c].args, "limit")
          P == call[c].req.params
      IN /\ ParamCount(P, "limit") = 1
         /\ limit.t = "number" =>
              /\ ParamValues(P, "limit")
                   = {NumToString(IF limit.n > 200 THEN 200 ELSE limit.n)}
              /\ \A v \in ParamValues(P, "limit") : ToNumber(Str(v)).n <= 200
         /\ limit = Undef => ParamValues(P, "limit") = {"20"}

C5_Witness ==
  \E c \in Calls :
    /\ rev = "reduced"
    /\ call[c].name = "search_resources"
    /\ Issued(c)
    /\ Lookup(call[c].args, "limit") = Num(500)
    /\ ParamValues(call[c].req.params, "limit") = {"200"}

\* C6: search_resources sends the search term (term in the full revision, q
\* in the reduced one) exactly when the caller supplied a non-empty query;
\* with query absent or empty the parameter is left out, and it is never
\* sent as an empty string.
C6_TermOnlyWhenQueryGiven ==
  \A c \in Calls :
    (call[c].name = "search_resources" /\ Issued(c)
     /\ Lookup(call[c].args, "query").t \in {"undefined", "string"}) =>
      LET query == Lookup(call[c].args, "query")
          P == call[c].req.params
          key == IF rev = "full" THEN "term" ELSE "q"
          other == IF rev = "full" THEN "q" ELSE "term"
      IN /\ ParamCount(P, other) = 0
         /\ "" \notin ParamValues(P, key)
         /\ IF query.t = "string" /\ query.s # ""
            THEN ParamCount(P, key) = 1 /\ ParamValues(P, key) = {query.s}
            ELSE ParamCount(P, key) = 0

C6_Witness ==
  \E c \in Calls :
    /\ rev = "full"
    /\ call[c].name = "search_resources"
    /\ Issued(c)
    /\ Lookup(call[c].args, "query") = Str("")
    /\ ParamCount(call[c].req.params, "term") = 0
    /\ call[c].req.url = "https://api.freepik.com/v1/resources?page=1&limit=20"

\* the sizes the download_icon schema declares for png_size
PngSizes == {512, 256, 128, 64, 32, 24, 16}

TaskStatusTools ==
  {"get_mystic_task", "get_flux_dev_task", "get_upscaler_task", "get_expand_task"}

\* C8: for get_mystic_task, get_flux_dev_task, get_upscaler_task and
\* get_expand_task, a payload with status "COMPLETED" and an empty or absent
\* generated list gives a text that says the task completed with no images
\* and does not say that it is still in progress.
C8_CompletedWithoutImages ==
  \A c \in Calls :
    (call[c].name \in TaskStatusTools /\ Replied(c) /\ call[c].resp.kind = "ok"
     /\ call[c].resp.payload.kind = "task"
     /\ call[c].resp.payload.status = "COMPLETED"
     /\ (~call[c].resp.payload.generated.present
         \/ call[c].resp.payload.generated.urls = << >>)) =>
      /\ Contains(TextOf(c), "Task completed but no images were generated.")
      /\ ~Contains(TextOf(c), "still in progress")

C8_Witness ==
  \E c \in Calls :
    /\ call[c].name = "get_upscaler_task"
    /\ Replied(c)
    /\ call[c].resp = Success(TaskPayload("t1", "COMPLETED", NotGenerated, "absent"))
    /\ TextOf(c) = "**Upscaler Task Status**\n\n- **Task ID**: t1\n- **Status**: COMPLETED\n\n*Task completed but no images were generated.*"

\* C9: for every tool of the catalog, the names in inputSchema.required are
\* exactly the arguments its handler treats as mandatory (no default, used
\* unconditionally in the upstream request).
C9_RequiredIsMandatory ==
  \A c \in Calls :
    (Started(c) /\ call[c].name \in ToolNamesOf(rev)) =>
      Descriptor(rev, call[c].name).required = Mandatory(Handler(rev, call[c].name))

\* C10: remove_background posts "image_url=" followed by the percent-encoded
\* value, as application/x-www-form-urlencoded and never as a JSON object,
\* and its reply shows the four URLs original, high_resolution, preview and
\* url of the response and no other field of it.
C10_FormBodyAndFourUrls ==
  \A c \in Calls :
    (call[c].name = "remove_background" /\ Issued(c)) =>
      LET image_url == Lookup(call[c].args, "image_url")
          q == call[c].req
          p == call[c].resp.payload
      IN /\ q.method = "POST"
         /\ q.bodyKind = "form"
         /\ q.fields = << >>
         /\ q.contentType = "application/x-www-form-urlencoded"
         /\ StartsWith(q.form, "image_url=")
         /\ image_url = Str("img.png") => q.form = "image_url=img.png"
         /\ image_url = Str("https://a.b/c d.png?x=1&y=2") =>
              q.form = "image_url=https%3A%2F%2Fa.b%2Fc%20d.png%3Fx%3D1%26y%3D2"
         /\ (Replied(c) /\ call[c].resp.kind = "ok" /\ p.kind = "rmbg") =>
              /\ Contains(TextOf(c), "- **Original**: " \o p.original \o "\n")
              /\ Contains(TextOf(c), "- **High Resolution**: " \o p.high_resolution \o "\n")
              /\ Contains(TextOf(c), "- **Preview**: " \o p.preview \o "\n")
              /\ Contains(TextOf(c), "- **Download URL**: " \o p.url \o "\n")
              /\ ~Contains(TextOf(c), p.extra)
              /\ Cardinality(Occurrences(TextOf(c), "https://")) = 4

C10_Witness ==
  \E c \in Calls :
    /\ call[c].name = "remove_background"
    /\ Replied(c)
    /\ call[c].req.form = "image_url=https%3A%2F%2Fa.b%2Fc%20d.png%3Fx%3D1%26y%3D2"
    /\ call[c].resp.kind = "ok"
    /\ call[c].resp.payload.kind = "rmbg"
    /\ Contains(TextOf(c), "- **Preview**: https://bg.fp/p.png\n")

\* C11: when FREEPIK_API_KEY is not set or empty, the process exits with a
\* status other than 0 before a handler is registered or the transport is
\* connected: no ListTools and no CallTool request is served in that run, and
\* no call ever runs with an empty key.
C11_NoKeyNoService ==
  /\ ~Truthy(env) =>
       /\ proc.phase \in {"start", "exited"}
       /\ ~proc.registered
       /\ ~proc.connected
       /\ proc.phase = "exited" => proc.exitCode # 0
       /\ ~listed.given
       /\ \A c \in Calls : call[c] = Idle
       /\ sent = 0
  /\ \A c \in Calls : Started(c) => apiKey # ""
  /\ listed.given => apiKey # ""

C11_Witness ==
  /\ env = Undef
  /\ proc = [phase |-> "exited", registered |-> FALSE, connected |-> FALSE, exitCode |-> 1]

\* the method and path the outbound interface table lists for a tool, with
\* the identifiers of the call in place
TableMethod(name) ==
  IF name \in {"generate_icon", "generate_icon_preview", "render_generated_icon",
               "generate_mystic", "generate_flux_dev", "reimagine_flux",
               "upscale_image", "remove_background", "expand_image"}
  THEN "POST" ELSE "GET"

TablePath(name, args) ==
  LET id(k) == ToJSString(Lookup(args, k))
      format == IF Lookup(args, "format") = Undef THEN "png" ELSE id("format")
  IN CASE name = "search_resources" -> "/resources"
       [] name = "search_icons" -> "/icons"
       [] name = "download_icon" -> "/icons/" \o id("icon_id") \o "/download"
       [] name = "download_resource" -> "/resources/" \o id("resource_id") \o "/download"
       [] name = "download_resource_format" ->
            "/resources/" \o id("resource_id") \o "/download/" \o id("format")
       [] name = "generate_icon" -> "/ai/text-to-icon"
       [] name = "generate_icon_preview" -> "/ai/text-to-icon/preview"
       [] name = "render_generated_icon" ->
            "/ai/text-to-icon/" \o id("task_id") \o "/render/" \o format
       [] name = "generate_mystic" -> "/ai/mystic"
       [] name = "get_mystic_task" -> "/ai/mystic/" \o id("task_id")
       [] name = "list_mystic_tasks" -> "/ai/mystic"
       [] name = "generate_flux_dev" -> "/ai/text-to-image/flux-dev"
       [] name = "get_flux_dev_task" -> "/ai/text-to-image/flux-dev/" \o id("task_id")
       [] name = "list_flux_dev_tasks" -> "/ai/text-to-image/flux-dev"
       [] name = "reimagine_flux" -> "/ai/beta/text-to-image/reimagine-flux"
       [] name = "upscale_image" -> "/ai/image-upscaler"
       [] name = "get_upscaler_task" -> "/ai/image-upscaler/" \o id("task_id")
       [] name = "list_upscaler_tasks" -> "/ai/image-upscaler"
       [] name = "remove_background" -> "/ai/beta/remove-background"
       [] name = "expand_image" -> "/ai/image-expand/flux-pro"
       [] name = "get_expand_task" -> "/ai/image-expand/flux-pro/" \o id("task_id")
       [] name = "list_expand_tasks" -> "/ai/image-expand/flux-pro"
       [] name = "get_resource_details" -> "/resources/" \o id("resource_id")

\* C12: the request a catalogued tool issues has the method the outbound
\* interface table lists for it (GET for search, list, get and download, POST
\* for generation, render, upscale, background removal and expansion) and
\* the table's path under the base URL, with the identifiers of the call
\* embedded.
C12_MethodAndPath ==
  \A c \in Calls :
    Issued(c) =>
      LET target == "https://api.freepik.com/v1" \o TablePath(call[c].name, call[c].args)
      IN /\ call[c].req.method = TableMethod(call[c].name)
         /\ \/ call[c].req.url = target
            \/ StartsWith(call[c].req.url, target \o "?")

C12_Witness ==
  \E c \in Calls :
    /\ Issued(c)
    /\ call[c].name = "download_resource_format"
    /\ call[c].req.method = "GET"
    /\ call[c].req.url = "https://api.freepik.com/v1/resources/r1/download/psd"

\* C13: every ListTools reply of a run is the same sequence of descriptors in
\* the same order, the catalog of the revision, whatever ListTools and
\* CallTool requests came before it, and answering ListTools changes nothing
\* else.
C13_ListToolsDeterministic ==
  /\ [](listed.given =>
          listed.tools = (IF rev = "full" THEN CatalogFull ELSE CatalogReduced))
  /\ [][listed' # listed => UNCHANGED <<rev, apiKey, call, sent, env, proc>>]_vars

C13_Witness ==
  /\ listed.given
  /\ sent > 0
  /\ \E c \in Calls : call[c].pc = "awaiting"
  /\ Len(listed.tools) = 23
  /\ listed.tools[1].name = "search_resources"
  /\ listed.tools[23].name = "get_resource_details"

\* C14: once the server is serving, no ListTools or CallTool step changes the
\* process: apiKey keeps the value it got at startup and every request goes
\* to the same base URL with that key; and the reply of a call is determined
\* by its tool name, its arguments and the upstream's answer to its own
\* request, whatever calls came before.
C14_CallsChangeNoState ==
  /\ [][proc.phase = "serving" =>
          (apiKey' = apiKey /\ rev' = rev /\ env' = env /\ proc' = proc)]_vars
  /\ [](proc.phase = "serving" => apiKey = env.s)
  /\ [](\A c \in Calls :
          /\ Issued(c) =>
               /\ call[c].req.apiKeyHeader = env.s
               /\ StartsWith(call[c].req.url, "https://api.freepik.com/v1/")
          /\ Replied(c) =>
               call[c].out =
                 (IF call[c].resp.kind = "none"
                  THEN TryCatch(Dispatch(rev, call[c].name, call[c].args, env.s))
                  ELSE TryCatch(Resume(rev, call[c].name, call[c].args, call[c].resp))))

C14_Witness ==
  \E c \in Calls :
    /\ sent = 2
    /\ Replied(c)
    /\ call[c].resp.kind = "ok"
    /\ call[c].req.apiKeyHeader = "fpk-test-key"
    /\ apiKey = "fpk-test-key"

\* C15: for render_generated_icon, a response with task_status "COMPLETED"
\* and an empty or absent generated list is reported distinctly from a task
\* still in progress: its text does not say that generation is still in
\* progress.
C15_RenderCompletedIsNotInProgress ==
  \A c \in Calls :
    (call[c].name = "render_generated_icon" /\ Replied(c) /\ call[c].resp.kind = "ok"
     /\ call[c].resp.payload.kind = "icontask"
     /\ call[c].resp.payload.task_status = "COMPLETED"
     /\ (~call[c].resp.payload.generated.present
         \/ call[c].resp.payload.generated.urls = << >>)) =>
      ~Contains(TextOf(c), "still in progress")

\* C16: no request carries a parameter whose value is undefined, null or an
\* empty placeholder: not in the query string, not in the JSON body as it is
\* serialised, not in the url-encoded body.
C16_NoPlaceholderSent ==
  \A c \in Calls :
    Issued(c) =>
      /\ \A i \in DOMAIN call[c].req.params :
           call[c].req.params[i][2] \notin {"", "undefined", "null"}
      /\ \A i \in DOMAIN JsonBody(call[c].req.fields) :
           JsonBody(call[c].req.fields)[i][2] \notin {Undef, Null, Str("")}
      /\ call[c].req.bodyKind = "form" =>
           call[c].req.form \notin {"image_url=", "image_url=undefined", "image_url=null"}

\* the request of call c carries the value v under the key: in the query
\* string, or in the JSON body as it is serialised
Carried(c, key, v) ==
  \/ \E i \in DOMAIN call[c].req.params : call[c].req.params[i] = <<key, ToJSString(v)>>
  \/ \E i \in DOMAIN JsonBody(call[c].req.fields) :
       JsonBody(call[c].req.fields)[i] = <<key, v>>

\* the key an argument travels under
KeyOf(param) == IF param = "family_id" THEN "family-id" ELSE param

\* C17: a number supplied for a numeric parameter and valid for its declared
\* range is forwarded in the request, the valid value 0 included:
\* guidance_scale and num_inference_steps of generate_icon and
\* generate_icon_preview, seed of generate_flux_dev, family_id of
\* search_icons, left/right/top/bottom of expand_image and the numeric
\* controls of upscale_image.
C17_ValidNumbersForwarded ==
  \A c \in Calls :
    (Issued(c) /\ rev = "full") =>
      /\ call[c].name \in DOMAIN Ranges =>
           \A param \in DOMAIN Ranges[call[c].name] :
             LET v == Lookup(call[c].args, param)
                 range == Ranges[call[c].name][param]
             IN (v.t = "number" /\ range[1] <= v.n /\ v.n <= range[2]) =>
                  Carried(c, KeyOf(param), v)
      /\ call[c].name \in DOMAIN Unranged =>
           \A param \in Unranged[call[c].name] :
             LET v == Lookup(call[c].args, param)
             IN v.t = "number" => Carried(c, KeyOf(param), v)

\* the numbers the request of call c carries under the key
NumbersCarried(c, key) ==
  {ToNumber(Str(call[c].req.params[i][2])).n :
     i \in {j \in DOMAIN call[c].req.params : call[c].req.params[j][1] = key}}
  \cup {call[c].req.fields[i][2].n :
          i \in {j \in DOMAIN call[c].req.fields :
                   /\ call[c].req.fields[j][1] = key
                   /\ call[c].req.fields[j][2].t = "number"}}

\* C18: for a numeric parameter whose schema declares a maximum, the value
\* sent is min(requested, maximum) and never more than the maximum:
\* num_inference_steps 50 and guidance_scale 10 of generate_icon and
\* generate_icon_preview, creativity/hdr/resemblance/fractality 10 of
\* upscale_image, left/right/top/bottom 2048 of expand_image.
C18_ClampedToMaximum ==
  \A c \in Calls :
    (Issued(c) /\ rev = "full" /\ call[c].name \in DOMAIN Ranges) =>
      \A param \in DOMAIN Ranges[call[c].name] :
        LET v == Lookup(call[c].args, param)
            maximum == Ranges[call[c].name][param][2]
        IN /\ \A n \in NumbersCarried(c, param) : n <= maximum
           /\ (v.t = "number" /\ v.n > maximum) => NumbersCarried(c, param) = {maximum}

\* C19: a parameter whose schema declares a default and which the caller
\* left out goes upstream with that default: page=1 and limit=20 of
\* search_resources, page=1 and per_page=20 of search_icons, format=svg of
\* download_icon, format=png of generate_icon, image_size=original of
\* download_resource, aspect_ratio=square_1_1 of generate_flux_dev,
\* aspect_ratio=original of reimagine_flux in the query or body, and
\* format=png of render_generated_icon in the path.
C19_DeclaredDefaultsUsed ==
  \A c \in Calls :
    (Issued(c) /\ rev = "full" /\ call[c].name \in DOMAIN Defaults) =>
      \A param \in DOMAIN Defaults[call[c].name] \ {"png_size"} :
        Lookup(call[c].args, param) = Undef =>
          IF call[c].name = "render_generated_icon"
          THEN call[c].req.url
                 = "https://api.freepik.com/v1/ai/text-to-icon/"
                   \o ToJSString(Lookup(call[c].args, "task_id")) \o "/render/"
                   \o Defaults[call[c].name][param].s
          ELSE Carried(c, param, Defaults[call[c].name][param])

\* the text shows exactly the entries ms, each where only it is counted by
\* the mark every entry has, and in the order of ms
FirstAt(text, m) == CHOOSE i \in Occurrences(text, m) : \A j \in Occurrences(text, m) : i <= j

OneEachInOrder(text, ms, mark) ==
  /\ Cardinality(Occurrences(text, mark)) = Len(ms)
  /\ \A i \in DOMAIN ms : Cardinality(Occurrences(text, ms[i])) = 1
  /\ \A i, j \in DOMAIN ms : i < j => FirstAt(text, ms[i]) < FirstAt(text, ms[j])

\* C20: a list-shaped response is rendered with exactly one entry per item
\* of the upstream list, in the upstream's order, none dropped, repeated or
\* moved: the resources of search_resources, the icons of search_icons, the
\* tasks of the four list tools, and the generated URLs of the status tools.
C20_OneEntryPerItemInOrder ==
  \A c \in Calls :
    (Replied(c) /\ call[c].resp.kind = "ok" /\ ~call[c].failure.raised) =>
      LET p == call[c].resp.payload
          text == TextOf(c)
      IN /\ p.kind = "resources" =>
              OneEachInOrder(text,
                [i \in DOMAIN p.items |->
                   "**" \o p.items[i].title \o "**\n- ID: " \o p.items[i].id
                   \o "\n- Author: " \o p.items[i].author],
                "\n- ID: ")
         /\ p.kind = "icons" =>
              OneEachInOrder(text,
                [i \in DOMAIN p.items |->
                   "**" \o p.items[i].name \o "**\n- ID: " \o p.items[i].id
                   \o "\n- Author: " \o p.items[i].author],
                "\n- ID: ")
         /\ p.kind = "tasks" =>
              OneEachInOrder(text,
                [i \in DOMAIN p.items |->
                   NumToString(i) \o ". **" \o p.items[i].task_id \o "** - Status: "
                   \o p.items[i].status],
                "** - Status: ")
         /\ p.kind \in {"task", "icontask"} =>
              OneEachInOrder(text,
                [i \in DOMAIN p.generated.urls |->
                   "\n" \o NumToString(i) \o ". " \o p.generated.urls[i]],
                "https://cdn.fp/")

C20_Witness ==
  \E c \in Calls :
    /\ call[c].name = "search_resources"
    /\ Replied(c)
    /\ call[c].resp.kind = "ok"
    /\ call[c].resp.payload.kind = "resources"
    /\ Len(call[c].resp.payload.items) = 2
    /\ call[c].resp.payload.items[1].id = "102"
    /\ Contains(TextOf(c), "- URL: https://fp/r/102\n\n**Red cat**\n- ID: 101\n")

\* C21: with two calls in flight and the upstream's answers arriving in any
\* order, each call's reply is the one its own name, arguments and answer
\* give in isolation; a step of one call, a failure included, leaves the
\* other call as it was, and no step writes the key.
C21_OverlappingCallsIndependent ==
  /\ [](\A c \in Calls :
          Replied(c) =>
            call[c].out =
              (IF call[c].resp.kind = "none"
               THEN TryCatch(Dispatch(rev, call[c].name, call[c].args, env.s))
               ELSE IF call[c].resp.kind = "ok"
               THEN TryCatch(MapResponse(rev, call[c].name,
                                         Destructure(Handler(rev, call[c].name),
                                                     call[c].args).value,
                                         call[c].resp.payload))
               ELSE ErrorReply(call[c].resp.message)))
  /\ [][/\ \A c, d \in Calls : (c # d /\ call'[c] # call[c]) => call'[d] = call[d]
        /\ proc.phase = "serving" => apiKey' = apiKey]_vars

C21_Witness ==
  /\ Replied(1)
  /\ call[1].name = "search_resources"
  /\ call[1].resp.kind = "neterr"
  /\ TextOf(1) = "Error: connect ECONNREFUSED 104.18.1.10:443"
  /\ Replied(2)
  /\ call[2].name = "get_resource_details"
  /\ call[2].resp.kind = "ok"
  /\ Contains(TextOf(2), "- **Title**: Red cat\n")

\* C22: every request issued, in both revisions, has the header
\* x-freepik-api-key with the key captured at startup, and a URL that begins
\* with https://api.freepik.com/v1.
C22_KeyHeaderAndBaseUrl ==
  \A c \in Calls :
    Issued(c) =>
      /\ \E i \in DOMAIN HeadersOf(call[c].req) :
           HeadersOf(call[c].req)[i] = <<"x-freepik-api-key", apiKey>>
      /\ apiKey \in ApiKeys
      /\ Str(apiKey) = env
      /\ StartsWith(call[c].req.url, "https://api.freepik.com/v1")

C22_Witness ==
  \E c \in Calls :
    /\ rev = "reduced"
    /\ Issued(c)
    /\ call[c].name = "get_resource_details"
    /\ HeadersOf(call[c].req) = << <<"x-freepik-api-key", "fpk-test-key">> >>
    /\ call[c].req.url = "https://api.freepik.com/v1/resources/r1"

\* C23: for every tool of the revision's catalog, every argument name its
\* handler reads is a property of the tool's schema, and the request a call
\* issues is the same when an undeclared argument is taken away from it.
C23_ReadsOnlyDeclaredArguments ==
  /\ \A i \in DOMAIN listTools(rev) :
       Reads(Handler(rev, listTools(rev)[i].name)) \subseteq listTools(rev)[i].properties
  /\ \A c \in Calls :
       (Issued(c) /\ call[c].args.present) =>
         LET declared == Descriptor(rev, call[c].name).properties
             kept == DOMAIN call[c].args.props \cap declared
         IN Ok(call[c].req)
              = BuildRequest(Handler(rev, call[c].name),
                             Arguments([k \in kept |-> call[c].args.props[k]]), apiKey)

C23_Witness ==
  \E c \in Calls :
    /\ Issued(c)
    /\ call[c].name = "get_resource_details"
    /\ DOMAIN call[c].args.props = {"resource_id", "verbose"}
    /\ Reads(Handler(rev, call[c].name)) = {"resource_id"}
    /\ Descriptor(rev, call[c].name).properties = {"resource_id"}
    /\ call[c].req.url = "https://api.freepik.com/v1/resources/r1"

\* C24: no two descriptors of a ListTools reply have the same name, in either
\* revision.
C24_ToolNamesUnique ==
  listed.given =>
    \A i, j \in DOMAIN listed.tools :
      listed.tools[i].name = listed.tools[j].name => i = j

C24_Witness ==
  /\ rev = "full"
  /\ listed.given
  /\ Cardinality({listed.tools[i].name : i \in DOMAIN listed.tools}) = 23

\* the query of the full revision with term renamed to q
TermAsQ(params) ==
  [i \in DOMAIN params |->
     IF params[i][1] = "term" THEN <<"q", params[i][2]>> ELSE params[i]]

\* C25: for search_resources with arguments among those both revisions
\* declare, the two revisions build the same query string, but for the name
\* of the search term: term in the full revision, q in the reduced one; and
\* where one throws before its request, so does the other, with the same
\* message.
C25_SameQueryInBothRevisions ==
  \A c \in Calls :
    (call[c].name = "search_resources" /\ Started(c)) =>
      LET full == BuildRequest(searchResources("full"), call[c].args, apiKey)
          reduced == BuildRequest(searchResources("reduced"), call[c].args, apiKey)
      IN /\ full.threw = reduced.threw
         /\ full.threw => full.message = reduced.message
         /\ ~full.threw =>
              /\ TermAsQ(full.value.params) = reduced.value.params
              /\ \A i \in DOMAIN full.value.params :
                   full.value.params[i][1] # "q"
              /\ \A i \in DOMAIN reduced.value.params :
                   reduced.value.params[i][1] # "term"
              /\ Issued(c)
              /\ call[c].req = (IF rev = "full" THEN full.value ELSE reduced.value)

C25_Witness ==
  \E c \in Calls :
    /\ rev = "reduced"
    /\ Issued(c)
    /\ call[c].req.url
         = "https://api.freepik.com/v1/resources?q=a+b%26c&page=1&limit=200&content_type=photo&color=red&people_gender=female"
    /\ BuildRequest(searchResources("full"), call[c].args, apiKey).value.url
         = "https://api.freepik.com/v1/resources?term=a+b%26c&page=1&limit=200&content_type=photo&color=red&people_gender=female"

\* C26: in each revision the names of the ListTools reply are the names the
\* switch of the CallTool handler has a case for: a call of a listed name is
\* never answered "Error: Unknown tool", a call of any other name always is;
\* in the full revision they are also the tools smithery.yaml declares.
C26_CatalogIsSwitch ==
  /\ ToolNamesOf(rev) = CasesOf(rev)
  /\ rev = "full" => ToolNamesOf(rev) = SmitheryTools
  /\ listed.given => {listed.tools[i].name : i \in DOMAIN listed.tools} = CasesOf(rev)
  /\ \A c \in Calls :
       Replied(c) =>
         (call[c].name \in ToolNamesOf(rev)
            <=> ~StartsWith(TextOf(c), "Error: Unknown tool"))

C26_Witness ==
  \E c \in Calls :
    /\ rev = "full"
    /\ listed.given
    /\ \E i \in DOMAIN listed.tools : listed.tools[i].name = call[c].name
    /\ call[c].name = "get_resource_details"
    /\ call[c].name \in SmitheryTools
    /\ Replied(c)
    /\ StartsWith(TextOf(c), "**Resource Details**")

\* C27: a call whose name the switch has no case for issues no upstream
\* request: it is never suspended on a request, it holds none, its reply is
\* the error reply alone, and no step of it, from its arrival to the delivery
\* of its reply, changes the number of requests issued.
C27_UnknownToolIssuesNoRequest ==
  /\ [](\A c \in Calls :
         (call[c].pc # "idle" /\ call[c].name \notin CasesOf(rev)) =>
           /\ call[c].pc = "done"
           /\ call[c].nreq = 0
           /\ call[c].req = NoRequest
           /\ call[c].resp = NoOutcome
           /\ call[c].out = ErrorReply("Unknown tool: " \o call[c].name))
  /\ [][\A c \in Calls :
          (/\ call'[c] # call[c]
           /\ \/ call[c].pc # "idle" /\ call[c].name \notin CasesOf(rev)
              \/ call'[c].pc # "idle" /\ call'[c].name \notin CasesOf(rev))
            => sent' = sent]_vars

C27_Witness ==
  \E c \in Calls :
    /\ call[c].name = "unknown_tool"
    /\ call[c].args.present
    /\ Replied(c)
    /\ sent = 1
    /\ call[c].nreq = 0
    /\ TextOf(c) = "Error: Unknown tool: unknown_tool"

ListTaskTools ==
  {"list_mystic_tasks", "list_flux_dev_tasks", "list_upscaler_tasks", "list_expand_tasks"}

\* C28: a call that carries no arguments object, of a tool the revision has a
\* case for: every handler but the four list_*_tasks replies "Error: ..."
\* at once and issues no request; the four list_*_tasks handlers issue the
\* request they issue for an empty arguments object and, on a 2xx response
\* with a task list, reply with the list.
C28_NoArgumentsObject ==
  \A c \in Calls :
    (Started(c) /\ ~call[c].args.present /\ call[c].name \in CasesOf(rev)) =>
      IF call[c].name \in ListTaskTools
      THEN /\ Issued(c)
           /\ call[c].nreq = 1
           /\ call[c].req.method = "GET"
           /\ call[c].req.apiKeyHeader = apiKey
           /\ Ok(call[c].req)
                = BuildRequest(Handler(rev, call[c].name), Arguments(EmptyProps), apiKey)
           /\ (Replied(c) /\ call[c].resp.kind = "ok"
                 /\ call[c].resp.payload.kind # "empty") =>
                /\ StartsWith(TextOf(c), "**All ")
                /\ ~StartsWith(TextOf(c), "Error: ")
      ELSE /\ Replied(c)
           /\ ~Issued(c)
           /\ call[c].nreq = 0
           /\ call[c].req = NoRequest
           /\ StartsWith(TextOf(c), "Error: Cannot destructure property '")
           /\ Len(call[c].out.content) = 1

C28_Witness ==
  \E c \in Calls :
    /\ ~call[c].args.present
    /\ Replied(c)
    /\ call[c].name = "search_icons"
    /\ Mandatory(Handler(rev, call[c].name)) = {}
    /\ sent = 0
    /\ TextOf(c) = "Error: Cannot destructure property 'term' of 'args' as it is undefined."

\* C29: the reply of get_mystic_task, get_flux_dev_task, get_upscaler_task
\* and get_expand_task to a 2xx task ends with exactly one of three sections:
\* the numbered list of the generated URLs exactly when generated is
\* non-empty, whatever the status; the completed-without-images phrase
\* exactly when generated is empty or absent and the status is COMPLETED; the
\* in-progress phrase in every other case, a failed task included.
C29_ExactlyOneLastSection ==
  \A c \in Calls :
    (call[c].name \in TaskStatusTools /\ Replied(c) /\ call[c].resp.kind = "ok"
     /\ call[c].resp.payload.kind = "task") =>
      LET p == call[c].resp.payload
          text == TextOf(c)
          nonEmpty == p.generated.present /\ p.generated.urls # << >>
          completed == ~nonEmpty /\ p.status = "COMPLETED"
          endsInList ==
            /\ Cardinality(Occurrences(text, " Images:**\n1. ")) = 1
            /\ EndsWith(text, " Images:**\n" \o NumberedUrls(p.generated.urls, 1))
          endsCompleted ==
            /\ Cardinality(Occurrences(text, "*Task completed but no images were generated.*")) = 1
            /\ EndsWith(text, "\n\n*Task completed but no images were generated.*")
          endsInProgress ==
            /\ Cardinality(Occurrences(text, " is still in progress.*")) = 1
            /\ EndsWith(text, " is still in progress.*")
      IN /\ endsInList <=> nonEmpty
         /\ endsCompleted <=> completed
         /\ endsInProgress <=> (~nonEmpty /\ ~completed)
         /\ nonEmpty => /\ ~Contains(text, "Task completed but no images")
                        /\ ~Contains(text, "still in progress")
         /\ completed => /\ ~Contains(text, " Images:**")
                         /\ ~Contains(text, "still in progress")
         /\ (~nonEmpty /\ ~completed) => /\ ~Contains(text, " Images:**")
                                          /\ ~Contains(text, "Task completed but no images")

C29_Witness ==
  \E c \in Calls :
    /\ call[c].name = "get_expand_task"
    /\ Replied(c)
    /\ call[c].resp.kind = "ok"
    /\ call[c].resp.payload.kind = "task"
    /\ call[c].resp.payload.status = "FAILED"
    /\ ~call[c].resp.payload.generated.present
    /\ TextOf(c) = "**Expand Task Status**\n\n- **Task ID**: t1\n- **Status**: FAILED\n\n*Expansion is still in progress.*"

====
